---- MODULE Spec2Model ----
(***************************************************************************)
(* TimeRibbons (js/app.js): the ribbon layout engine, the crossing         *)
(* detector, the tile cache and the asynchronous render pass, as a state   *)
(* machine.  One step of the machine is one browser task: a user event     *)
(* handler, or the completion of one tile image load, together with all    *)
(* the promise continuations (microtasks) it makes runnable.               *)
(*                                                                         *)
(* Numbers.  JavaScript numbers are modelled as exact rationals            *)
(* [n |-> numerator, d |-> denominator > 0] in lowest terms; coordinates   *)
(* are whole grid units.  Floating-point rounding is not modelled.         *)
(***************************************************************************)
EXTENDS Integers, Sequences, FiniteSets, TLC

VARIABLES
    paths,             \* state.paths: the saved paths, in saving order
    nextPathId,        \* state.nextPathId
    alignment,         \* state.alignment: NULL or [crossingKey, anchorPathId]
    tileProvider,      \* state.tileProvider
    tileCache,         \* tileCache: key -> tile image, or NULL for a failed load
    view,              \* state.view: "map" or "ribbon"
    ribbonMeta,        \* state.ribbonMeta
    ribbonRows,        \* the .ribbon-row children of elements.ribbonRows
    scrollLeft,        \* elements.ribbonRows.scrollLeft
    clientWidth,       \* elements.ribbonRows.clientWidth
    passes,            \* the renderAllRibbons calls so far, in starting order
    nullServed,        \* history: some getTile call returned a cached failure
    failures,          \* history: image loads that ended in onerror
    providerChanges,   \* history: effective changeTileProvider calls
    loadsStarted,      \* history: loadTile calls
    drawMode,          \* state.drawMode: the draw canvas takes pointer events
    drawing,           \* state.drawing: a stroke is being drawn
    currentGeoPath,    \* state.currentGeoPath: the points of the stroke being drawn
    status,            \* elements.status.textContent
    probe              \* a function call under test with its result (function specifications only)

(* JavaScript's null (and undefined); every nullable value here is a record. *)
NULL == [null |-> TRUE]

----------------------------------------------------------------------------
(* Exact rational arithmetic standing for JavaScript's number type.        *)

Abs(x) == IF x < 0 THEN -x ELSE x

RECURSIVE GCD(_, _)
GCD(a, b) == IF b = 0 THEN a ELSE GCD(b, a % b)

Rat(n, d) ==
    LET s == IF d < 0 THEN -1 ELSE 1
        g == GCD(Abs(n), Abs(d))
    IN  [n |-> (s * n) \div g, d |-> (s * d) \div g]

RInt(k) == [n |-> k, d |-> 1]
RZero == RInt(0)

RNeg(a) == [n |-> -a.n, d |-> a.d]

RAdd(a, b) ==
    LET g == GCD(a.d, b.d)
    IN  Rat(a.n * (b.d \div g) + b.n * (a.d \div g), (a.d \div g) * b.d)

RSub(a, b) == RAdd(a, RNeg(b))

RMul(a, b) ==
    IF a.n = 0 \/ b.n = 0 THEN RZero
    ELSE LET g1 == GCD(Abs(a.n), b.d)
             g2 == GCD(Abs(b.n), a.d)
         IN  [n |-> (a.n \div g1) * (b.n \div g2),
              d |-> (a.d \div g2) * (b.d \div g1)]

RInv(a) == IF a.n < 0 THEN [n |-> -a.d, d |-> -a.n] ELSE [n |-> a.d, d |-> a.n]

RDiv(a, b) == RMul(a, RInv(b))

RLt(a, b) == a.n * b.d < b.n * a.d
RLe(a, b) == a.n * b.d <= b.n * a.d
RMin(a, b) == IF RLt(b, a) THEN b ELSE a
RMax(a, b) == IF RLt(a, b) THEN b ELSE a
RAbs(a) == [n |-> Abs(a.n), d |-> a.d]
RFloor(a) == a.n \div a.d
RCeil(a) == -((-a.n) \div a.d)

(* Integer square root, the largest r with r*r <= x (Newton's iteration). *)
RECURSIVE ISqrtFrom(_, _)
ISqrtFrom(x, r) ==
    LET next == (r + (x \div r)) \div 2
    IN  IF next >= r THEN r ELSE ISqrtFrom(x, next)
ISqrt(x) == IF x = 0 THEN 0 ELSE ISqrtFrom(x, x)

----------------------------------------------------------------------------
(* Number.prototype.toFixed(8) and the crossing dedup key                  *)
(* `${lat.toFixed(8)},${lng.toFixed(8)}`.  toFixed rounds the magnitude to *)
(* 8 decimals (ties upward) and keeps the sign; the string is modelled as  *)
(* <<sign, integer part, the 8 fraction digits as a number>>.              *)

FixedDigits == 8

RECURSIVE FracDigits(_, _, _, _)
FracDigits(rem, d, k, acc) ==
    IF k = 0 THEN <<acc, rem>>
    ELSE FracDigits((rem * 10) % d, d, k - 1, acc * 10 + ((rem * 10) \div d))

RECURSIVE Pow10(_)
Pow10(k) == IF k = 0 THEN 1 ELSE 10 * Pow10(k - 1)

toFixed(x) ==
    LET mag   == Abs(x.n)
        ip    == mag \div x.d
        fr    == FracDigits(mag % x.d, x.d, FixedDigits, 0)
        up    == 2 * fr[2] >= x.d
        frac  == IF up THEN fr[1] + 1 ELSE fr[1]
        carry == frac = Pow10(FixedDigits)
    IN  << IF x.n < 0 THEN "-" ELSE "",
           IF carry THEN ip + 1 ELSE ip,
           IF carry THEN 0 ELSE frac >>

crossingKey(c) == <<toFixed(c.lat), toFixed(c.lng)>>

----------------------------------------------------------------------------
(* Geometry and distance utilities.  A geo point is <<lat, lng>> in whole  *)
(* grid units; a geoPath is a sequence of points (1-based here, 0-based in *)
(* the source).                                                            *)

(* Metres per grid unit.  haversine is modelled by the flat small-region   *)
(* distance in whole metres (the great-circle formula needs sin/cos/atan2);*)
(* it is symmetric, non-negative and 0 exactly for equal points.           *)
CellMeters == 100

haversine(lat1, lng1, lat2, lng2) ==
    ISqrt(CellMeters * CellMeters
          * ((lat2 - lat1) * (lat2 - lat1) + (lng2 - lng1) * (lng2 - lng1)))

(* distances = [0]; distances.push(distances[i - 1] + haversine(...)) for  *)
(* every further point.                                                    *)
RECURSIVE distancesAlong(_)
distancesAlong(geoPath) ==
    IF Len(geoPath) <= 1 THEN <<0>>
    ELSE LET n    == Len(geoPath)
             prev == distancesAlong(SubSeq(geoPath, 1, n - 1))
         IN  Append(prev, prev[n - 1] + haversine(geoPath[n - 1][1], geoPath[n - 1][2],
                                                  geoPath[n][1], geoPath[n][2]))

(* Distances that would leave out the leading 0. *)
computeCumulativeDistancesWithoutZero(geoPath) ==
    LET n == Len(geoPath)
    IN  [k \in 1..n |-> distancesAlong(geoPath)[IF k < n THEN k + 1 ELSE n]]

computeCumulativeDistances(geoPath) == distancesAlong(geoPath)

calculateDistanceForPath(geoPath) ==
    LET distances == computeCumulativeDistances(geoPath)
    IN  distances[Len(distances)]

(* An intersection of segment p1-p2 with the whole line through p3, p4. *)
segmentIntersectionWithLine(p1, p2, p3, p4) ==
    LET dx1   == p2[1] - p1[1]
        dy1   == p2[2] - p1[2]
        dx2   == p4[1] - p3[1]
        dy2   == p4[2] - p3[2]
        denom == dx1 * dy2 - dy1 * dx2
        t     == Rat((p3[1] - p1[1]) * dy2 - (p3[2] - p1[2]) * dx2, denom)
        u     == Rat((p3[1] - p1[1]) * dy1 - (p3[2] - p1[2]) * dx1, denom)
    IN  IF denom = 0 THEN NULL
        ELSE IF RLt(t, RZero) \/ RLt(RInt(1), t)
             THEN NULL
        ELSE [lat |-> RAdd(RInt(p1[1]), RMul(t, RInt(dx1))),
              lng |-> RAdd(RInt(p1[2]), RMul(t, RInt(dy1))),
              t |-> t, u |-> u]

(* |denom| < 1e-12: on whole grid units the cross product is an integer,   *)
(* so the test is denom = 0.                                               *)
segmentIntersection(p1, p2, p3, p4) ==
    LET dx1   == p2[1] - p1[1]
        dy1   == p2[2] - p1[2]
        dx2   == p4[1] - p3[1]
        dy2   == p4[2] - p3[2]
        denom == dx1 * dy2 - dy1 * dx2
        t     == Rat((p3[1] - p1[1]) * dy2 - (p3[2] - p1[2]) * dx2, denom)
        u     == Rat((p3[1] - p1[1]) * dy1 - (p3[2] - p1[2]) * dx1, denom)
    IN  IF denom = 0 THEN NULL
        ELSE IF RLt(t, RZero) \/ RLt(RInt(1), t) \/ RLt(u, RZero) \/ RLt(RInt(1), u)
             THEN NULL
        ELSE [lat |-> RAdd(RInt(p1[1]), RMul(t, RInt(dx1))),
              lng |-> RAdd(RInt(p1[2]), RMul(t, RInt(dy1))),
              t |-> t, u |-> u]

(* An inner loop that would also test a segment against its neighbour. *)
jStartAdjacent(i, isSelf) == IF isSelf THEN i + 1 ELSE 1

(* const jStart = isSelf ? i + 2 : 0 (segments are numbered from 1 here) *)
jStart(i, isSelf) == IF isSelf THEN i + 2 ELSE 1

(* The segment pairs (i, j) in the order the two nested loops visit them.  *)
SegmentPairs(nA, nB, isSelf) ==
    LET all == [k \in 1..(nA * nB) |-> <<((k - 1) \div nB) + 1, ((k - 1) % nB) + 1>>]
        Visited(p) == p[2] >= jStart(p[1], isSelf)
    IN  SelectSeq(all, Visited)

(* The tested pairs whose segments intersect, each with the result of     *)
(* segmentIntersection.                                                    *)
segmentHits(gA, gB, pairs) ==
    SelectSeq([k \in 1..Len(pairs) |->
                  [i |-> pairs[k][1], j |-> pairs[k][2],
                   result |-> segmentIntersection(gA[pairs[k][1]], gA[pairs[k][1] + 1],
                                                  gB[pairs[k][2]], gB[pairs[k][2] + 1])]],
              LAMBDA hit : hit.result # NULL)

(* A crossing that would be put at the start of the segments it is on. *)
crossingOfAtSegmentStart(hit, distA, distB) ==
    LET totalA == distA[Len(distA)]
        totalB == distB[Len(distB)]
    IN  [lat |-> hit.result.lat, lng |-> hit.result.lng,
         distFractionA |-> IF totalA > 0 THEN Rat(distA[hit.i], totalA) ELSE RZero,
         distFractionB |-> IF totalB > 0 THEN Rat(distB[hit.j], totalB) ELSE RZero]

(* The crossing pushed for a hit: its place and its distance fractions     *)
(* along both paths.                                                       *)
crossingOf(hit, distA, distB) ==
    LET totalA     == distA[Len(distA)]
        totalB     == distB[Len(distB)]
        crossDistA == RAdd(RInt(distA[hit.i]),
                           RMul(hit.result.t, RInt(distA[hit.i + 1] - distA[hit.i])))
        crossDistB == RAdd(RInt(distB[hit.j]),
                           RMul(hit.result.u, RInt(distB[hit.j + 1] - distB[hit.j])))
    IN  [lat |-> hit.result.lat, lng |-> hit.result.lng,
         distFractionA |-> IF totalA > 0 THEN RDiv(crossDistA, RInt(totalA)) ELSE RZero,
         distFractionB |-> IF totalB > 0 THEN RDiv(crossDistB, RInt(totalB)) ELSE RZero]

crossingsOf(hits, distA, distB) ==
    [k \in 1..Len(hits) |-> crossingOf(hits[k], distA, distB)]

(* distB is distA for a self test, which is the same value. *)
findPathCrossings(pathA, pathB) ==
    crossingsOf(segmentHits(pathA.geoPath, pathB.geoPath,
                            SegmentPairs(Len(pathA.geoPath) - 1, Len(pathB.geoPath) - 1,
                                         pathA.id = pathB.id)),
                computeCumulativeDistances(pathA.geoPath),
                computeCumulativeDistances(pathB.geoPath))

----------------------------------------------------------------------------
(* The strokes the user draws in the state machine, each a geoPath of at   *)
(* least 6 points (stopDrawing saves nothing shorter).  Stroke 1 runs east *)
(* along lat 5 (1000 m); stroke 2 runs north along lng 1 and crosses it    *)
(* near its own end; stroke 3 runs north along lng 7, crossing stroke 1 at *)
(* (5, 7), and loops back to cross itself at (6, 7).                       *)
Strokes ==
    << << <<5, 0>>, <<5, 2>>, <<5, 4>>, <<5, 6>>, <<5, 8>>, <<5, 10>> >>,
       << <<0, 1>>, <<1, 1>>, <<2, 1>>, <<3, 1>>, <<4, 1>>, <<6, 1>> >>,
       << <<4, 7>>, <<7, 7>>, <<7, 8>>, <<6, 8>>, <<6, 6>>, <<6, 5>> >> >>

(* Further strokes for the function specifications: one whose first and    *)
(* fourth segments cross at (4, 4) and which crosses stroke 1 twice, one   *)
(* of 500 m and one of 2000 m.                                             *)
MoreStrokes ==
    << << <<2, 2>>, <<6, 6>>, <<6, 4>>, <<6, 2>>, <<2, 6>>, <<2, 7>> >>,
       << <<6, 9>>, <<7, 9>>, <<8, 9>>, <<9, 9>>, <<10, 9>>, <<11, 9>> >>,
       << <<12, 0>>, <<12, 4>>, <<12, 8>>, <<12, 12>>, <<12, 16>>, <<12, 20>> >> >>

AllStrokes == Strokes \o MoreStrokes

(* A stroke north along lng 4 that crosses stroke 1 at (5, 4), the point   *)
(* where the second segment of stroke 1 ends and its third begins.         *)
VertexStroke == << <<3, 4>>, <<4, 4>>, <<6, 4>>, <<7, 4>>, <<8, 4>>, <<9, 4>> >>

StrokeSet == {AllStrokes[k] : k \in 1..Len(AllStrokes)} \cup {VertexStroke}

(* findPathCrossings over the strokes, computed once: the crossings of two *)
(* paths depend only on their point sequences and on whether they are the  *)
(* same path object.                                                       *)
crossingsMemo ==
    [gA \in StrokeSet, gB \in StrokeSet, isSelf \in BOOLEAN |->
        findPathCrossings([id |-> 1, geoPath |-> gA],
                          [id |-> IF isSelf THEN 1 ELSE 2, geoPath |-> gB]) \o <<>>]

pathCrossings(pathA, pathB) ==
    crossingsMemo[pathA.geoPath, pathB.geoPath, pathA.id = pathB.id]

(* crossingsByPath[id]: the events in the order the loops push them: for   *)
(* the path at index k, the B-sides of the pairs (a, k) with a < k, then   *)
(* its self-crossings (two events each), then the A-sides of (k, b), b > k.*)
RECURSIVE Flatten(_)
Flatten(seqs) == IF seqs = <<>> THEN <<>> ELSE Head(seqs) \o Flatten(Tail(seqs))

(* The event pushed for the path on the A side of crossing c. *)
eventA(c, otherPathId) ==
    [distFraction |-> c.distFractionA, otherPathId |-> otherPathId,
     lat |-> c.lat, lng |-> c.lng]

(* A B-side event that would name no other path. *)
eventBOfNoPath(c, otherPathId) ==
    [distFraction |-> c.distFractionB, otherPathId |-> 0,
     lat |-> c.lat, lng |-> c.lng]

(* The event pushed for the path on the B side of crossing c. *)
eventB(c, otherPathId) ==
    [distFraction |-> c.distFractionB, otherPathId |-> otherPathId,
     lat |-> c.lat, lng |-> c.lng]

(* A self-crossing that would push one event only. *)
selfEventsOnce(c, id) == << eventA(c, id) >>

(* The two events a self-crossing pushes onto its own path's list. *)
selfEvents(c, id) == << eventA(c, id), eventB(c, id) >>

sideA(crossings, otherPathId) ==
    [k \in 1..Len(crossings) |-> eventA(crossings[k], otherPathId)]

sideB(crossings, otherPathId) ==
    [k \in 1..Len(crossings) |-> eventB(crossings[k], otherPathId)]

selfSide(crossings, id) ==
    Flatten([k \in 1..Len(crossings) |-> selfEvents(crossings[k], id)])

(* The list of the path at index k of pathList. *)
eventsOf(pathList, k) ==
    Flatten([a \in 1..(k - 1) |->
                sideB(pathCrossings(pathList[a], pathList[k]), pathList[a].id)])
    \o selfSide(pathCrossings(pathList[k], pathList[k]), pathList[k].id)
    \o Flatten([b \in 1..(Len(pathList) - k) |->
                sideA(pathCrossings(pathList[k], pathList[k + b]), pathList[k + b].id)])

computeAllCrossings(pathList) ==
    [id \in {pathList[k].id : k \in 1..Len(pathList)} |->
        eventsOf(pathList, CHOOSE k \in 1..Len(pathList) : pathList[k].id = id)]

----------------------------------------------------------------------------
(* Ribbon layout engine: the synchronous first part of renderAllRibbons.   *)

padding == 20

(* Array.prototype.find: the first element satisfying Test, or NULL.       *)
Find(seq, Test(_)) ==
    LET hits == {k \in 1..Len(seq) : Test(seq[k])}
    IN  IF hits = {} THEN NULL
        ELSE seq[CHOOSE k \in hits : \A h \in hits : k <= h]

(* crossingsByPath[id] || [] *)
crossingsOr(crossingsByPath, id) ==
    IF id \in DOMAIN crossingsByPath THEN crossingsByPath[id] ELSE <<>>

(* crossings.find(c => key(c) === crossingKey) *)
findCrossing(crossings, key) ==
    LET Matches(c) == crossingKey(c) = key
    IN  Find(crossings, Matches)

MaxOf(xs) == CHOOSE x \in {xs[k] : k \in 1..Len(xs)} : \A k \in 1..Len(xs) : xs[k] <= x

(* An offset that would be taken the other way round. *)
alignedOffsetSwapped(anchorX, thisX) == RSub(thisX, anchorX)

(* drawOffsets[layout.pathId] = anchorX - thisX *)
alignedOffset(anchorX, thisX) == RSub(anchorX, thisX)

(* A layout that would never shift. *)
globalShiftNone(minStart) == RZero

(* const globalShift = minStart < 0 ? -minStart + padding : 0 *)
globalShiftOf(minStart) ==
    IF RLt(minStart, RZero) THEN RAdd(RNeg(minStart), RInt(padding)) ELSE RZero

(* A layout width that would leave out the padding on both sides. *)
layoutRibbonWidthUnpadded(distance, maxDistance, viewportWidth) ==
    RMul(Rat(distance, maxDistance), RInt(viewportWidth))

(* ribbonWidth: (path.distance / maxDistance) * maxRibbonWidth, with       *)
(* maxRibbonWidth = viewportWidth - padding * 2                            *)
layoutRibbonWidth(distance, maxDistance, viewportWidth) ==
    RMul(Rat(distance, maxDistance), RInt(viewportWidth - padding * 2))

(* The layout of one pass: widths, the aligned flag, whether the anchor    *)
(* resolved, and for a resolved anchor the draw offsets (after the global  *)
(* shift), the canvas width and the scroll target.  totalCanvasWidth 0     *)
(* means the default (viewport) width.  The computation is staged: each    *)
(* operator below receives what the lines before it have computed.         *)

(* No alignment, or one that does not resolve: no offsets, default width. *)
plainLayout(maxDistance, crossingsByPath, viewportWidth, layouts, aligned) ==
    [maxDistance      |-> maxDistance,
     crossingsByPath  |-> crossingsByPath,
     viewportWidth    |-> viewportWidth,
     layouts          |-> layouts,
     aligned          |-> aligned,
     resolved         |-> FALSE,
     globalShift      |-> RZero,
     anchorX          |-> RZero,
     maxEnd           |-> RZero,
     drawOffsets      |-> <<>>,
     totalCanvasWidth |-> RZero,
     scrollTarget     |-> RZero]

(* A canvas width that would leave out the global shift. *)
totalCanvasWidthUnshifted(maxEnd, globalShift) == RAdd(maxEnd, RInt(padding))

(* totalCanvasWidth = maxEnd + globalShift + padding *)
totalCanvasWidthOf(maxEnd, globalShift) ==
    RAdd(RAdd(maxEnd, globalShift), RInt(padding))

(* The global shift, the shifted offsets, the canvas width and the scroll  *)
(* target, from the offsets before the shift (rawOffsets[k] for layouts[k], *)
(* 0 for the anchor).                                                      *)
shiftedLayout(plain, anchorId, anchorWidth, anchorX, rawOffsets) ==
    LET n        == Len(plain.layouts)
        others   == {k \in 1..n : plain.layouts[k].pathId # anchorId}
        Start(k) == RAdd(RInt(padding), rawOffsets[k])
        End(k)   == RAdd(Start(k), plain.layouts[k].ribbonWidth)
        RECURSIVE MinStart(_, _)
        MinStart(ks, acc) ==
            IF ks = {} THEN acc
            ELSE LET k == CHOOSE k \in ks : TRUE
                 IN  MinStart(ks \ {k}, RMin(acc, Start(k)))
        RECURSIVE MaxEnd(_, _)
        MaxEnd(ks, acc) ==
            IF ks = {} THEN acc
            ELSE LET k == CHOOSE k \in ks : TRUE
                 IN  MaxEnd(ks \ {k}, RMax(acc, End(k)))
        maxEnd      == MaxEnd(others, RAdd(RInt(padding), anchorWidth))
        globalShift == globalShiftOf(MinStart(others, RInt(padding)))
    IN  [plain EXCEPT
            !.resolved    = TRUE,
            !.globalShift = globalShift,
            !.anchorX     = anchorX,
            !.maxEnd      = maxEnd,
            !.drawOffsets = [id \in {plain.layouts[k].pathId : k \in 1..n} |->
                                RAdd(rawOffsets[CHOOSE k \in 1..n :
                                                    plain.layouts[k].pathId = id],
                                     globalShift)],
            !.totalCanvasWidth = totalCanvasWidthOf(maxEnd, globalShift),
            !.scrollTarget = RSub(RAdd(anchorX, globalShift),
                                  Rat(plain.viewportWidth, 2))]

(* An offset that would start a ribbon without the crossing at the         *)
(* anchor's crossing.                                                      *)
rawOffsetUnmatchedAtCrossing(layout, match, anchorId, anchorX) ==
    IF layout.pathId = anchorId THEN RZero
    ELSE IF match = NULL THEN RSub(anchorX, RInt(padding))
    ELSE alignedOffset(anchorX, RAdd(RInt(padding),
                                     RMul(match.distFraction, layout.ribbonWidth)))

(* The offset of one ribbon before the shift: 0 for the anchor and for a   *)
(* ribbon without the crossing, anchorX - thisX otherwise.                 *)
rawOffset(layout, match, anchorId, anchorX) ==
    IF layout.pathId = anchorId \/ match = NULL THEN RZero
    ELSE alignedOffset(anchorX, RAdd(RInt(padding),
                                     RMul(match.distFraction, layout.ribbonWidth)))

offsetLayout(plain, align, anchorWidth, anchorX) ==
    shiftedLayout(plain, align.anchorPathId, anchorWidth, anchorX,
        [k \in 1..Len(plain.layouts) |->
            rawOffset(plain.layouts[k],
                      findCrossing(crossingsOr(plain.crossingsByPath,
                                               plain.layouts[k].pathId),
                                   align.crossingKey),
                      align.anchorPathId, anchorX)])

anchoredLayout(plain, align, anchorLayout, anchorCrossing) ==
    IF anchorCrossing = NULL \/ anchorLayout = NULL THEN plain
    ELSE offsetLayout(plain, align, anchorLayout.ribbonWidth,
                      RAdd(RInt(padding),
                           RMul(anchorCrossing.distFraction, anchorLayout.ribbonWidth)))

alignLayout(plain, align) ==
    IF align = NULL THEN plain
    ELSE anchoredLayout(plain, align,
                        Find(plain.layouts, LAMBDA l : l.pathId = align.anchorPathId),
                        findCrossing(crossingsOr(plain.crossingsByPath, align.anchorPathId),
                                     align.crossingKey))

ribbonLayouts(pathList, maxDistance, viewportWidth) ==
    [k \in 1..Len(pathList) |->
        [pathId |-> pathList[k].id,
         ribbonWidth |-> layoutRibbonWidth(pathList[k].distance, maxDistance,
                                           viewportWidth)]]

(* A layout that would be computed before the crossings are detected. *)
measuredLayoutBeforeCrossings(pathList, align, viewportWidth, maxDistance) ==
    alignLayout(plainLayout(maxDistance,
                            [id \in {pathList[k].id : k \in 1..Len(pathList)} |-> <<>>],
                            viewportWidth,
                            ribbonLayouts(pathList, maxDistance, viewportWidth),
                            align # NULL),
                align)

measuredLayout(pathList, align, viewportWidth, maxDistance) ==
    alignLayout(plainLayout(maxDistance, computeAllCrossings(pathList), viewportWidth,
                            ribbonLayouts(pathList, maxDistance, viewportWidth),
                            align # NULL),
                align)

computeLayout(pathList, align, viewportWidth) ==
    measuredLayout(pathList, align, viewportWidth,
                   MaxOf([k \in 1..Len(pathList) |-> pathList[k].distance]))

----------------------------------------------------------------------------
(* Ribbon sampler and tile projector (renderSingleRibbon).                 *)

MinSegments == 20
MaxSegments == 80
PixelsPerSegment == 8

IMin(a, b) == IF a < b THEN a ELSE b
IMax(a, b) == IF a > b THEN a ELSE b

(* A number of samples that would have no upper limit. *)
numSegmentsOfUncapped(ribbonWidth) ==
    IMax(MinSegments, RFloor(RDiv(ribbonWidth, RInt(PixelsPerSegment))))

(* Math.min(80, Math.max(20, Math.floor(ribbonWidth / 8))) *)
numSegmentsOf(ribbonWidth) ==
    IMin(MaxSegments,
         IMax(MinSegments, RFloor(RDiv(ribbonWidth, RInt(PixelsPerSegment)))))

(* Math.ceil(ribbonWidth / numSegments) *)
segmentWidthOf(ribbonWidth) ==
    RCeil(RDiv(ribbonWidth, RInt(numSegmentsOf(ribbonWidth))))

(* ctx.drawImage(stripCanvas, effectivePadding + i * segmentWidth, 10), the *)
(* strip canvas being segmentWidth wide: the horizontal extent of strip i. *)
stripOf(effectivePadding, segmentWidth, i) ==
    [left  |-> RAdd(effectivePadding, RInt(i * segmentWidth)),
     right |-> RAdd(effectivePadding, RInt((i + 1) * segmentWidth))]

(* The strips of one ribbon, in drawing order. *)
stripsOf(effectivePadding, ribbonWidth) ==
    [k \in 1..numSegmentsOf(ribbonWidth) |->
        stripOf(effectivePadding, segmentWidthOf(ribbonWidth), k - 1)]

(* The ribbon width renderSingleRibbon computes for itself:                *)
(* (totalDistance / maxDistance) * ((vpWidth || cssWidth) - 2 * padding),  *)
(* with cssWidth = totalCanvasWidth || canvas.clientWidth.                 *)
ribbonWidthOf(geoPath, maxDistance, vpWidth, totalCanvasWidth, canvasClientWidth) ==
    LET cssWidth    == IF totalCanvasWidth # RZero THEN totalCanvasWidth ELSE RInt(canvasClientWidth)
        layoutWidth == IF vpWidth # 0 THEN RInt(vpWidth) ELSE cssWidth
    IN  RMul(Rat(calculateDistanceForPath(geoPath), maxDistance),
             RSub(layoutWidth, RInt(padding * 2)))

(* p1 + t * (p2 - p1) *)
interpolate(p1, p2, t) ==
    [lat |-> RAdd(RInt(p1[1]), RMul(t, RInt(p2[1] - p1[1]))),
     lng |-> RAdd(RInt(p1[2]), RMul(t, RInt(p2[2] - p1[2])))]

(* A scan that would keep the last segment whose end reaches the target. *)
segIdxOfLastReached(distances, targetDist) ==
    LET L     == Len(distances)
        reach == {j \in 1..(L - 1) : RLe(targetDist, RInt(distances[j + 1]))}
    IN  IF reach # {} THEN (CHOOSE j \in reach : \A h \in reach : h <= j) - 1
        ELSE IF L >= 2 THEN L - 2 ELSE 0

(* The segment (0-based) targetDist falls in: the first j >= 1 with        *)
(* distances[j] >= targetDist, less one; the last segment if there is none.*)
segIdxOf(distances, targetDist) ==
    LET L     == Len(distances)
        reach == {j \in 1..(L - 1) : RLe(targetDist, RInt(distances[j + 1]))}
    IN  IF reach # {} THEN (CHOOSE j \in reach : \A h \in reach : j <= h) - 1
        ELSE IF L >= 2 THEN L - 2 ELSE 0

(* segEnd = distances[segIdx + 1] || distances[segIdx] *)
segEndOf(distances, segIdx) ==
    IF segIdx + 2 <= Len(distances) /\ distances[segIdx + 2] # 0
    THEN distances[segIdx + 2] ELSE distances[segIdx + 1]

(* t = segLen > 0 ? (targetDist - segStart) / segLen : 0 *)
localFraction(distances, targetDist, segIdx) ==
    LET segStart == distances[segIdx + 1]
        segLen   == segEndOf(distances, segIdx) - segStart
    IN  IF segLen > 0 THEN RDiv(RSub(targetDist, RInt(segStart)), RInt(segLen))
        ELSE RZero

pointOn(geoPath, distances, targetDist, segIdx) ==
    interpolate(geoPath[segIdx + 1],
                geoPath[IMin(segIdx + 1, Len(geoPath) - 1) + 1],
                localFraction(distances, targetDist, segIdx))

pointAt(geoPath, distances, targetDist) ==
    pointOn(geoPath, distances, targetDist, segIdxOf(distances, targetDist))

(* targetDist = (i / (numSegments - 1)) * totalDistance *)
targetDistOf(distances, numSegments, i) ==
    RMul(Rat(i, numSegments - 1), RInt(distances[Len(distances)]))

(* Sample i (0-based) of numSegments: the point at arc length targetDist.  *)
(* The heading (atan2) only turns the strip and is left out.               *)
samplePoint(geoPath, distances, numSegments, i) ==
    pointAt(geoPath, distances, targetDistOf(distances, numSegments, i))

(* Grid units per tile at the render zoom.  The Web-Mercator projection    *)
(* (log, tan) is modelled by its shape on a small region: tileX grows with *)
(* lng, tileY grows as lat falls, each tile TileSpan grid units wide.      *)
TileSpan == 16

(* Math.min(state.map.getZoom() + 1, 17) with the map at its initial zoom. *)
MapZoom == 14
MaxTileZoom == 17
zoom == IMin(MapZoom + 1, MaxTileZoom)

latLngToTilePixel(lat, lng) ==
    [tileX |-> RFloor(RDiv(lng, RInt(TileSpan))),
     tileY |-> RFloor(RDiv(RNeg(lat), RInt(TileSpan)))]

(* The 3x3 neighbourhood, in the order the tiles are requested. *)
offsets ==
    << [dx |-> -1, dy |-> -1], [dx |-> 0, dy |-> -1], [dx |-> 1, dy |-> -1],
       [dx |-> -1, dy |-> 0],  [dx |-> 0, dy |-> 0],  [dx |-> 1, dy |-> 0],
       [dx |-> -1, dy |-> 1],  [dx |-> 0, dy |-> 1],  [dx |-> 1, dy |-> 1] >>

(* The cache key `${z}/${x}/${y}` of getTile(x, y, z). *)
tileKey(x, y, z) == <<z, x, y>>

tileOf(point) == latLngToTilePixel(point.lat, point.lng)

sampleTilesAlong(geoPath, distances, numSegments) ==
    [i \in 1..numSegments |-> tileOf(samplePoint(geoPath, distances, numSegments, i - 1))]

(* The tiles of the samples of one ribbon, in drawing order: entry i + 1   *)
(* is latLngToTilePixel of samplePoints[i].                                *)
sampleTiles(geoPath, numSegments) ==
    sampleTilesAlong(geoPath, computeCumulativeDistances(geoPath), numSegments)

(* The key getTile is called with for offset k (1..9) of a sample in tile  *)
(* tileInfo.                                                               *)
requestKey(tileInfo, k) ==
    tileKey(tileInfo.tileX + offsets[k].dx, tileInfo.tileY + offsets[k].dy, zoom)

(* The getTile calls of one ribbon in order: call number i * 9 + k is for  *)
(* offset k of sample i (0-based).                                         *)
requestKeys(tiles) ==
    [r \in 1..(Len(offsets) * Len(tiles)) |->
        requestKey(tiles[((r - 1) \div Len(offsets)) + 1], ((r - 1) % Len(offsets)) + 1)]

(* The same calls by key: for each key, the numbers of the calls for it.   *)
callsByKey(keys) ==
    [key \in {keys[r] : r \in 1..Len(keys)} |-> {r \in 1..Len(keys) : keys[r] = key}]

(* The widths elements.ribbonRows.clientWidth takes. *)
ViewportWidths == {1000, 640}

(* The segment counts the drawn strokes can get at those widths, and their *)
(* getTile calls, computed once.                                           *)
DrawnStrokes == {Strokes[k] : k \in 1..Len(Strokes)}

StrokeDistances == {calculateDistanceForPath(g) : g \in DrawnStrokes}

SegmentCounts ==
    {numSegmentsOf(RMul(Rat(c[1], c[2]), RInt(c[3] - padding * 2))) :
        c \in {c \in StrokeDistances \X StrokeDistances \X ViewportWidths : c[1] <= c[2]}}
    \cup {MaxSegments}

ribbonCalls(geoPath, numSegments) == callsByKey(requestKeys(sampleTiles(geoPath, numSegments)))

ribbonCallsMemo == [g \in DrawnStrokes, n \in SegmentCounts |-> ribbonCalls(g, n)]

ribbonRequests(geoPath, numSegments) ==
    IF geoPath \in DrawnStrokes /\ numSegments \in SegmentCounts
    THEN ribbonCallsMemo[geoPath, numSegments]
    ELSE ribbonCalls(geoPath, numSegments)

----------------------------------------------------------------------------
(* What savePath stores for the stroke g saved under id. *)
pathData(id, g) == [id |-> id, geoPath |-> g, distance |-> calculateDistanceForPath(g)]

(* state.tileProvider values: two of the four keys of tileProviders. *)
Providers == {"voyager", "dark"}

----------------------------------------------------------------------------
(* The tile cache (tileCache, a Map from key to image or null).            *)

(* How far the behaviours are explored. *)
MaxPasses == 3
MaxLoads == 4
MaxFaults == 1
MaxDeletes == 1

EmptyCache == [key \in {} |-> NULL]

(* The image loadTile resolves with when img.onload fires; it shows the    *)
(* provider that was current when the load began.                          *)
Image(provider) == [img |-> provider]

(* A has() that would treat a cached failure as a miss. *)
cacheHasImage(cache, key) == key \in DOMAIN cache /\ cache[key] # NULL

(* tileCache.has(key) *)
cacheHas(cache, key) == key \in DOMAIN cache

(* A set() that would keep no failure. *)
storeTileIfLoaded(cache, key, tile) ==
    IF tile = NULL THEN cache
    ELSE [c \in DOMAIN cache \cup {key} |-> IF c = key THEN tile ELSE cache[c]]

(* tileCache.set(key, tile) *)
storeTile(cache, key, tile) ==
    [c \in DOMAIN cache \cup {key} |-> IF c = key THEN tile ELSE cache[c]]

----------------------------------------------------------------------------
(* One renderAllRibbons call (a pass).  A pass either runs, is suspended   *)
(* on the image load of one tile (pc = "await"), has returned ("done") or  *)
(* has thrown, rejecting its promise, which nobody handles ("thrown").     *)
(* A pass holds the locals of renderAllRibbons (alignment0 is what         *)
(* state.alignment was when `aligned` was taken, layout the values         *)
(* computed before the loop), the array iterator of `for (const path of    *)
(* state.paths)` (live: it is still the state.paths array; arr: the array  *)
(* it was, once clearAllPaths has replaced state.paths; next: elements     *)
(* visited), and the locals of the renderSingleRibbon call in progress.    *)
(* rendered (the paths whose ribbon is complete) is history.  Of a pass    *)
(* that has ended only pc, alignment0 and the aligned and resolved flags   *)
(* remain.                                                                 *)

NoLayout ==
    [maxDistance |-> 0, crossingsByPath |-> <<>>, viewportWidth |-> 0, layouts |-> <<>>,
     aligned |-> FALSE, resolved |-> FALSE, globalShift |-> RZero, anchorX |-> RZero,
     maxEnd |-> RZero, drawOffsets |-> <<>>, totalCanvasWidth |-> RZero,
     scrollTarget |-> RZero]

newPass(alignment0, layout) ==
    [pc |-> "run", alignment0 |-> alignment0, layout |-> layout,
     live |-> TRUE, arr |-> <<>>, next |-> 0,
     path |-> NULL, drawOffset |-> RZero, ribbonWidth |-> RZero, numSegments |-> 0,
     relative |-> FALSE,
     i |-> 0, k |-> 0, load |-> NULL, rendered |-> <<>>]

(* The pass has ended: its locals are gone. *)
ended(pass, pc) ==
    [pass EXCEPT !.pc = pc, !.live = FALSE, !.arr = <<>>, !.next = 0, !.path = NULL,
                 !.drawOffset = RZero, !.ribbonWidth = RZero, !.numSegments = 0,
                 !.relative = FALSE,
                 !.i = 0, !.k = 0, !.load = NULL, !.rendered = <<>>,
                 !.layout = [NoLayout EXCEPT !.aligned = pass.layout.aligned,
                                             !.resolved = pass.layout.resolved]]

(* crossings.map(c => ({...c, pixelX: effectivePadding + c.distFraction * meta.ribbonWidth})) *)
withPixelX(crossings, effectivePadding, ribbonWidth) ==
    [c \in 1..Len(crossings) |->
        [distFraction |-> crossings[c].distFraction,
         otherPathId  |-> crossings[c].otherPathId,
         lat |-> crossings[c].lat, lng |-> crossings[c].lng,
         pixelX |-> RAdd(effectivePadding, RMul(crossings[c].distFraction, ribbonWidth))]]

(* isAnchor and crossingDist, the per-ribbon options of the path loop:     *)
(* `aligned` is the constant of the pass, al is state.alignment as it is   *)
(* when the ribbon begins.                                                 *)
labelOptions(aligned, al, path, crossings) ==
    LET isAnchor == aligned /\ path.id = al.anchorPathId
        match    == findCrossing(crossings, al.crossingKey)
    IN  [isAnchor |-> isAnchor,
         crossingDist |-> IF aligned /\ ~isAnchor /\ match # NULL
                          THEN RMul(match.distFraction, RInt(path.distance))
                          ELSE NULL]

(* const useRelative = crossingDist != null && !isAnchor: the distance     *)
(* markers are labelled with signed distances from the crossing.           *)
useRelative(options) == options.crossingDist # NULL /\ ~options.isAnchor

(* The entry pushed onto state.ribbonMeta for a finished ribbon; row is    *)
(* the .ribbon-row element its canvas sits in, relative the label mode     *)
(* drawn on its canvas.                                                    *)
ribbonMetaOf(path, crossingsByPath, drawOffset, ribbonWidth, row, relative) ==
    LET effectivePadding == RAdd(RInt(padding), drawOffset)
    IN  [pathId |-> path.id,
         padding |-> effectivePadding,
         ribbonWidth |-> ribbonWidth,
         totalDistance |-> calculateDistanceForPath(path.geoPath),
         crossings |-> withPixelX(crossingsOr(crossingsByPath, path.id),
                                  effectivePadding, ribbonWidth),
         row |-> row,
         relative |-> relative]

(* A draw offset that would default to the padding. *)
drawOffsetOfPadded(lay, id) ==
    IF id \in DOMAIN lay.drawOffsets THEN lay.drawOffsets[id] ELSE RInt(padding)

(* drawOffsets[path.id] || 0 *)
drawOffsetOf(lay, id) ==
    IF id \in DOMAIN lay.drawOffsets THEN lay.drawOffsets[id] ELSE RZero

(* A scroll that would be applied without the clamp at 0. *)
scrollAppliedUnclamped(lay) == IF lay.aligned THEN lay.scrollTarget ELSE RZero

(* The scrollLeft set once all ribbons are rendered. *)
scrollApplied(lay) ==
    IF lay.aligned /\ RLt(RZero, lay.scrollTarget)
    THEN RMax(RZero, lay.scrollTarget) ELSE RZero

MinOf(S) == CHOOSE v \in S : \A w \in S : v <= w

(* The number of the first getTile call from call `from` on whose key is   *)
(* not in the cache; 0 if there is none.                                   *)
nextRequest(calls, cache, from) ==
    LET Later(key) == {r \in calls[key] : r >= from}
        missing == {key \in DOMAIN calls : ~cacheHas(cache, key) /\ Later(key) # {}}
    IN  IF missing = {} THEN 0 ELSE MinOf({MinOf(Later(key)) : key \in missing})

(* Some getTile call from `from` up to the call before `stop` (to the last *)
(* call if stop = 0) returns a cached failure.                             *)
servesFailure(calls, cache, from, stop) ==
    \E key \in DOMAIN calls :
        /\ cacheHas(cache, key)
        /\ cache[key] = NULL
        /\ \E r \in calls[key] : r >= from /\ (stop = 0 \/ r < stop)

keyOfCall(calls, r) == CHOOSE key \in DOMAIN calls : r \in calls[key]

(* A machine m is the part of the program state a running pass reads and  *)
(* writes: al (state.alignment), cache, meta (state.ribbonMeta), rows,     *)
(* scroll, nullServed, loads, and pass, the running pass itself.  env holds *)
(* what the pass only reads during one task: paths, provider, and id, the  *)
(* index of the pass.                                                      *)
(*                                                                         *)
(* drawSegments: the draw loop of renderSingleRibbon from sample i, offset *)
(* k on.  A getTile whose key is cached continues in a microtask, before   *)
(* any other task; the first key that is not cached starts loadTile and    *)
(* suspends the pass.  When the last strip is drawn, renderSingleRibbon    *)
(* returns, the meta is pushed and the path loop goes on.                  *)
RECURSIVE renderLoop(_, _)
RECURSIVE drawSegments(_, _)

(* The pass suspended in getTile call number `stop`. *)
suspendedAt(pass, calls, stop, provider) ==
    [pass EXCEPT !.pc = "await",
                 !.i = (stop - 1) \div Len(offsets),
                 !.k = ((stop - 1) % Len(offsets)) + 1,
                 !.load = [key |-> keyOfCall(calls, stop), provider |-> provider,
                           hung |-> FALSE]]

drawUpTo(m, env, calls, from, stop) ==
    IF stop > 0
    THEN [m EXCEPT
            !.nullServed = @ \/ servesFailure(calls, m.cache, from, stop),
            !.loads = @ + 1,
            !.pass = suspendedAt(m.pass, calls, stop, env.provider)]
    ELSE renderLoop(
           [m EXCEPT
              !.nullServed = @ \/ servesFailure(calls, m.cache, from, stop),
              !.meta = Append(@, ribbonMetaOf(m.pass.path, m.pass.layout.crossingsByPath,
                                              m.pass.drawOffset, m.pass.ribbonWidth,
                                              [pass |-> env.id, pathId |-> m.pass.path.id],
                                              m.pass.relative)),
              !.pass = [m.pass EXCEPT !.rendered = Append(@, m.pass.path.id),
                                      !.path = NULL]],
           env)

drawFrom(m, env, calls, from) ==
    drawUpTo(m, env, calls, from, nextRequest(calls, m.cache, from))

drawSegments(m, env) ==
    drawFrom(m, env, ribbonRequests(m.pass.path.geoPath, m.pass.numSegments),
             m.pass.i * Len(offsets) + m.pass.k)

(* renderSingleRibbon begins for `path`, in the row just appended. *)
startRibbon(m, env, path, ribbonWidth) ==
    drawSegments(
        [m EXCEPT
           !.pass = [m.pass EXCEPT
                       !.next = @ + 1,
                       !.path = path,
                       !.relative =
                           useRelative(labelOptions(
                               m.pass.layout.aligned, m.al, path,
                               crossingsOr(m.pass.layout.crossingsByPath, path.id))),
                       !.drawOffset = drawOffsetOf(m.pass.layout, path.id),
                       !.ribbonWidth = ribbonWidth,
                       !.numSegments = numSegmentsOf(ribbonWidth),
                       !.i = 0, !.k = 1]],
        env)

(* One turn of the path loop for `path`.  The row is appended before the   *)
(* options are computed; `aligned` is the constant taken before the loop,  *)
(* state.alignment is read again here.  isAnchor and crossingDist choose   *)
(* the distance labels; evaluating isAnchor is what can throw.             *)
renderPath(m, env, path) ==
    IF m.pass.layout.aligned /\ m.al = NULL
    THEN [m EXCEPT !.rows = Append(@, [pass |-> env.id, pathId |-> path.id]),
                   !.pass = ended(m.pass, "thrown")]
    ELSE startRibbon([m EXCEPT !.rows = Append(@, [pass |-> env.id, pathId |-> path.id])],
                     env, path,
                     ribbonWidthOf(path.geoPath, m.pass.layout.maxDistance,
                                   m.pass.layout.viewportWidth,
                                   m.pass.layout.totalCanvasWidth,
                                   m.pass.layout.viewportWidth))

(* The array the pass iterates. *)
iterated(pass, pathList) == IF pass.live THEN pathList ELSE pass.arr

(* renderLoop: `for (const path of state.paths)` from the next element on, *)
(* and the scroll position once the array is exhausted.                    *)
renderLoop(m, env) ==
    IF m.pass.next >= Len(iterated(m.pass, env.paths))
    THEN [m EXCEPT !.scroll = scrollApplied(m.pass.layout),
                   !.pass = ended(m.pass, "done")]
    ELSE renderPath(m, env, iterated(m.pass, env.paths)[m.pass.next + 1])

(* A layout that would use the alignment up. *)
alignmentAfterLayoutCleared(al0, layout) == NULL

(* state.alignment after the layout: set to null if it did not resolve     *)
(* (`state.alignment = null; // invalid alignment, reset`), else untouched. *)
alignmentAfterLayout(al0, layout) ==
    IF layout.aligned /\ ~layout.resolved THEN NULL ELSE al0

(* The pass goes into the loop with its layout; an alignment that did not  *)
(* resolve has been set to null.                                           *)
renderWith(m, env, al0, layout) ==
    renderLoop([m EXCEPT !.al = alignmentAfterLayout(al0, layout),
                         !.pass = newPass(al0, layout)],
               env)

(* renderAllRibbons from its first line to its first suspension. *)
renderAllRibbons(m, env, viewportWidth) ==
    IF Len(env.paths) = 0
    THEN [m EXCEPT !.rows = <<>>, !.meta = <<>>,
                   !.pass = ended(newPass(m.al, NoLayout), "done")]
    ELSE renderWith([m EXCEPT !.rows = <<>>, !.meta = <<>>], env, m.al,
                    computeLayout(env.paths, m.al, viewportWidth))

----------------------------------------------------------------------------
(* The state machine.                                                      *)

vars == <<paths, nextPathId, alignment, tileProvider, tileCache, view, ribbonMeta,
          ribbonRows, scrollLeft, clientWidth, passes, nullServed, failures,
          providerChanges, loadsStarted, drawMode, drawing, currentGeoPath, status,
          probe>>

(* No function call is under test in the state machine. *)
NoProbe == [fn |-> "none", args |-> <<>>, done |-> FALSE, out |-> NULL]

(* The keys around the tile stroke 1 lies in. *)
WarmKeys == DOMAIN ribbonRequests(Strokes[1], MaxSegments)

(* The three strokes have been drawn and saved and the map is shown; the   *)
(* tiles around stroke 1 are in the cache from an earlier unrolling.       *)
Init ==
    /\ paths = [k \in 1..Len(Strokes) |-> pathData(k, Strokes[k])]
    /\ nextPathId = Len(Strokes) + 1
    /\ alignment = NULL
    /\ tileProvider = "voyager"
    /\ tileCache = [key \in WarmKeys |-> Image("voyager")]
    /\ view = "map"
    /\ ribbonMeta = <<>>
    /\ ribbonRows = <<>>
    /\ scrollLeft = RZero
    /\ clientWidth = 1000
    /\ passes = <<>>
    /\ nullServed = FALSE
    /\ failures = 0
    /\ providerChanges = 0
    /\ loadsStarted = 0
    /\ drawMode = FALSE
    /\ drawing = FALSE
    /\ currentGeoPath = <<>>
    /\ status = "Navigate map"
    /\ probe = NoProbe

machine ==
    [al |-> alignment, cache |-> tileCache, meta |-> ribbonMeta, rows |-> ribbonRows,
     scroll |-> scrollLeft, nullServed |-> nullServed, loads |-> loadsStarted,
     pass |-> NULL]

(* The state a pass has written when the task ends. *)
Install(m, newPasses) ==
    /\ m.loads <= MaxLoads
    /\ loadsStarted' = m.loads
    /\ alignment' = m.al
    /\ tileCache' = m.cache
    /\ ribbonMeta' = m.meta
    /\ ribbonRows' = m.rows
    /\ scrollLeft' = m.scroll
    /\ nullServed' = m.nullServed
    /\ passes' = newPasses

InstallNew(m) == Install(m, Append(passes, m.pass))

InstallAt(m, p) == Install(m, [passes EXCEPT ![p] = m.pass])

(* A handler sets state.alignment to al and calls renderAllRibbons(). *)
StartRender(al, viewportWidth) ==
    /\ Len(passes) < MaxPasses
    /\ InstallNew(renderAllRibbons([machine EXCEPT !.al = al],
                                   [paths |-> paths, provider |-> tileProvider,
                                    id |-> Len(passes) + 1],
                                   viewportWidth))

(* showRibbon: the unroll button, disabled while there is no path. *)
ShowRibbon ==
    /\ Len(paths) > 0
    /\ view' = "ribbon"
    /\ StartRender(alignment, clientWidth)
    /\ UNCHANGED <<paths, nextPathId, tileProvider, clientWidth, failures,
                   providerChanges, drawMode, drawing, currentGeoPath, status, probe>>

(* showMap: the back button. *)
ShowMap ==
    /\ view = "ribbon"
    /\ view' = "map"
    /\ UNCHANGED <<paths, nextPathId, alignment, tileProvider, tileCache, ribbonMeta,
                   ribbonRows, scrollLeft, clientWidth, passes, nullServed, failures,
                   providerChanges, loadsStarted, drawMode, drawing, currentGeoPath,
                   status, probe>>

(* The widths a resize gives the ribbon container in the state machine. *)
ResizeWidths == {1000}

(* The window resize listener: the ribbon container gets width w. *)
Resize(w) ==
    /\ clientWidth' = w
    /\ IF view = "ribbon"
       THEN StartRender(alignment, w)
       ELSE UNCHANGED <<alignment, tileCache, ribbonMeta, ribbonRows, scrollLeft,
                        nullServed, loadsStarted, passes>>
    /\ UNCHANGED <<paths, nextPathId, tileProvider, view, failures, providerChanges,
                   drawMode, drawing, currentGeoPath, status, probe>>

hitRadius == 10

(* A handler that would align to a self-crossing as to any other. *)
handleRibbonClickAnyCrossing(metaList, al, row, canvasX) ==
    LET OnRow(meta) == meta.row = row
        meta == Find(metaList, OnRow)
        Near(crossing) == RLt(RAbs(RSub(canvasX, crossing.pixelX)), RInt(hitRadius))
        crossing == IF meta = NULL THEN NULL ELSE Find(meta.crossings, Near)
    IN  IF crossing # NULL
        THEN [alignment |-> [crossingKey |-> crossingKey(crossing),
                             anchorPathId |-> meta.pathId],
              render |-> TRUE]
        ELSE [alignment |-> NULL, render |-> al # NULL]

(* A handler that would keep the alignment when the click hits no marker. *)
handleRibbonClickKeepingAlignment(metaList, al, row, canvasX) ==
    LET OnRow(meta) == meta.row = row
        meta == Find(metaList, OnRow)
        Near(crossing) == RLt(RAbs(RSub(canvasX, crossing.pixelX)), RInt(hitRadius))
        crossing == IF meta = NULL THEN NULL ELSE Find(meta.crossings, Near)
    IN  IF crossing # NULL /\ crossing.otherPathId # meta.pathId
        THEN [alignment |-> [crossingKey |-> crossingKey(crossing),
                             anchorPathId |-> meta.pathId],
              render |-> TRUE]
        ELSE IF crossing # NULL THEN [alignment |-> NULL, render |-> al # NULL]
        ELSE [alignment |-> al, render |-> FALSE]

(* handleRibbonClick for a click on the canvas of `row` (NULL: on no       *)
(* canvas) at canvasX: what state.alignment becomes, and whether           *)
(* renderAllRibbons is called.  Only the meta whose canvas is under the    *)
(* pointer passes the canvasY test; its first crossing within hitRadius is *)
(* the hit.  A self-crossing resets an existing alignment, another         *)
(* crossing aligns to it, and a click that hits nothing resets an existing *)
(* alignment.                                                              *)
handleRibbonClick(metaList, al, row, canvasX) ==
    LET OnRow(meta) == meta.row = row
        meta == Find(metaList, OnRow)
        Near(crossing) == RLt(RAbs(RSub(canvasX, crossing.pixelX)), RInt(hitRadius))
        crossing == IF meta = NULL THEN NULL ELSE Find(meta.crossings, Near)
    IN  IF crossing # NULL /\ crossing.otherPathId # meta.pathId
        THEN [alignment |-> [crossingKey |-> crossingKey(crossing),
                             anchorPathId |-> meta.pathId],
              render |-> TRUE]
        ELSE [alignment |-> NULL, render |-> al # NULL]

(* A fraction that would be measured from the base padding. *)
pixelToFractionFromBase(meta, canvasX) ==
    RMax(RZero, RMin(RInt(1), RDiv(RSub(canvasX, RInt(padding)), meta.ribbonWidth)))

(* Math.max(0, Math.min(1, (canvasX - hoveredMeta.padding) / hoveredMeta.ribbonWidth)) *)
pixelToFraction(meta, canvasX) ==
    RMax(RZero, RMin(RInt(1), RDiv(RSub(canvasX, meta.padding), meta.ribbonWidth)))

(* A hover that would take the last crossing within the radius. *)
handleRibbonMouseMoveLastHit(metaList, row, canvasX) ==
    LET OnRow(meta) == meta.row = row
        meta == Find(metaList, OnRow)
        near == IF meta = NULL THEN {}
                ELSE {c \in 1..Len(meta.crossings) :
                        RLt(RAbs(RSub(canvasX, meta.crossings[c].pixelX)), RInt(hitRadius))}
    IN  [fraction |-> IF meta = NULL THEN NULL ELSE pixelToFraction(meta, canvasX),
         hoveredCrossingKey |->
            IF near = {} THEN NULL
            ELSE crossingKey(meta.crossings[CHOOSE c \in near : \A d \in near : d <= c])]

(* handleRibbonMouseMove with the pointer on the canvas of `row` (NULL: on *)
(* no row) at canvasX: the fraction the cursor label shows (NULL: label    *)
(* hidden) and what state.hoveredCrossingKey becomes.                      *)
handleRibbonMouseMove(metaList, row, canvasX) ==
    LET OnRow(meta) == meta.row = row
        meta == Find(metaList, OnRow)
        Near(crossing) == RLt(RAbs(RSub(canvasX, crossing.pixelX)), RInt(hitRadius))
        crossing == IF meta = NULL THEN NULL ELSE Find(meta.crossings, Near)
    IN  [fraction |-> IF meta = NULL THEN NULL ELSE pixelToFraction(meta, canvasX),
         hoveredCrossingKey |-> IF crossing = NULL THEN NULL ELSE crossingKey(crossing)]

(* A click on the r-th row at the x of the c-th crossing marker of its     *)
(* ribbon (the row has a meta once its ribbon is rendered).                *)
RibbonClick(r, c) ==
    /\ view = "ribbon"
    /\ r \in 1..Len(ribbonRows)
    /\ LET OnRow(meta) == meta.row = ribbonRows[r]
           meta == Find(ribbonMeta, OnRow)
       IN  /\ meta # NULL
           /\ c \in 1..Len(meta.crossings)
           /\ LET outcome == handleRibbonClick(ribbonMeta, alignment, ribbonRows[r],
                                               meta.crossings[c].pixelX)
              IN  IF outcome.render
                  THEN StartRender(outcome.alignment, clientWidth)
                  ELSE UNCHANGED <<alignment, tileCache, ribbonMeta, ribbonRows,
                                   scrollLeft, nullServed, loadsStarted, passes>>
    /\ UNCHANGED <<paths, nextPathId, tileProvider, view, clientWidth, failures,
                   providerChanges, drawMode, drawing, currentGeoPath, status, probe>>

(* A click in the ribbon container away from every crossing marker. *)
RibbonClickOutside ==
    /\ view = "ribbon"
    /\ LET outcome == handleRibbonClick(ribbonMeta, alignment, NULL, RZero)
       IN  IF outcome.render
           THEN StartRender(outcome.alignment, clientWidth)
           ELSE UNCHANGED <<alignment, tileCache, ribbonMeta, ribbonRows,
                            scrollLeft, nullServed, loadsStarted, passes>>
    /\ UNCHANGED <<paths, nextPathId, tileProvider, view, clientWidth, failures,
                   providerChanges, drawMode, drawing, currentGeoPath, status, probe>>

(* A removal that would drop the last entry and move the points of the    *)
(* later paths up under the ids before them.                               *)
splicedShifting(pathList, id) ==
    LET idx == CHOOSE k \in 1..Len(pathList) : pathList[k].id = id
    IN  [k \in 1..(Len(pathList) - 1) |->
            IF k < idx THEN pathList[k]
            ELSE [pathList[k] EXCEPT !.geoPath = pathList[k + 1].geoPath,
                                     !.distance = pathList[k + 1].distance]]

(* state.paths.splice(idx, 1), idx the index of the path with this id. *)
spliced(pathList, id) == SelectSeq(pathList, LAMBDA p : p.id # id)

(* deletePath(id): splices the path out of the state.paths array, which a  *)
(* suspended pass may be iterating.  No render follows.                    *)
DeletePath(id) ==
    /\ \E idx \in 1..Len(paths) : paths[idx].id = id
    /\ (nextPathId - 1) - Len(paths) < MaxDeletes
    /\ paths' = spliced(paths, id)
    /\ status' = "Path deleted"
    /\ UNCHANGED <<nextPathId, alignment, tileProvider, tileCache, view, ribbonMeta,
                   ribbonRows, scrollLeft, clientWidth, passes, nullServed, failures,
                   providerChanges, loadsStarted, drawMode, drawing, currentGeoPath,
                   probe>>

(* clearAllPaths: state.paths becomes a new empty array (a suspended pass  *)
(* keeps iterating the old one), state.alignment null and the stroke       *)
(* buffer empty; state.drawing is left as it is.                           *)
ClearAllPaths ==
    /\ paths' = <<>>
    /\ alignment' = NULL
    /\ passes' = [p \in 1..Len(passes) |->
                    IF passes[p].live
                    THEN [passes[p] EXCEPT !.live = FALSE, !.arr = paths]
                    ELSE passes[p]]
    /\ currentGeoPath' = <<>>
    /\ status' = IF drawMode THEN "Draw a path" ELSE "Navigate map"
    /\ UNCHANGED <<nextPathId, tileProvider, tileCache, view, ribbonMeta, ribbonRows,
                   scrollLeft, clientWidth, nullServed, failures, providerChanges,
                   loadsStarted, drawMode, drawing, probe>>

(* Failed loads, hung loads and provider changes so far. *)
faults ==
    failures + providerChanges
    + Cardinality({q \in 1..Len(passes) : passes[q].pc = "await" /\ passes[q].load.hung})

(* The values the provider <select> can hand to changeTileProvider; the   *)
(* last one is no key of tileProviders.                                    *)
ProviderInputs == Providers \cup {"unknown"}

(* A changeTileProvider that would keep the cache. *)
changeTileProviderKeepingCache(provider, cache, providerKey) ==
    IF providerKey \notin Providers \/ providerKey = provider
    THEN [tileProvider |-> provider, tileCache |-> cache]
    ELSE [tileProvider |-> providerKey, tileCache |-> cache]

(* changeTileProvider(providerKey): returns at once for an unknown key or  *)
(* the current provider; otherwise sets the provider and clears the cache. *)
changeTileProvider(provider, cache, providerKey) ==
    IF providerKey \notin Providers \/ providerKey = provider
    THEN [tileProvider |-> provider, tileCache |-> cache]
    ELSE [tileProvider |-> providerKey, tileCache |-> EmptyCache]

ChangeTileProvider(providerKey) ==
    /\ LET after == changeTileProvider(tileProvider, tileCache, providerKey)
       IN  /\ after.tileProvider # tileProvider => faults < MaxFaults
           /\ tileProvider' = after.tileProvider
           /\ tileCache' = after.tileCache
           /\ providerChanges' = IF after.tileProvider # tileProvider
                                 THEN providerChanges + 1 ELSE providerChanges
    /\ UNCHANGED <<paths, nextPathId, alignment, view, ribbonMeta, ribbonRows,
                   scrollLeft, clientWidth, passes, nullServed, failures, loadsStarted,
                   drawMode, drawing, currentGeoPath, status, probe>>

(* The image a pass waits for fires onload (ok) or onerror: loadTile       *)
(* resolves, getTile stores the result and returns it, and the pass runs   *)
(* on to its next suspension or to its end.                                *)
TileLoaded(p, ok) ==
    /\ p \in 1..Len(passes)
    /\ passes[p].pc = "await"
    /\ ~passes[p].load.hung
    /\ ~ok => faults < MaxFaults
    /\ InstallAt(drawSegments(
                     [machine EXCEPT
                         !.cache = storeTile(tileCache, passes[p].load.key,
                                             IF ok THEN Image(passes[p].load.provider)
                                             ELSE NULL),
                         !.pass = [passes[p] EXCEPT !.pc = "run", !.k = @ + 1,
                                                    !.load = NULL]],
                     [paths |-> paths, provider |-> tileProvider, id |-> p]),
                 p)
    /\ failures' = IF ok THEN failures ELSE failures + 1
    /\ UNCHANGED <<paths, nextPathId, tileProvider, view, clientWidth, providerChanges,
                   drawMode, drawing, currentGeoPath, status, probe>>

(* The image a pass waits for will fire neither onload nor onerror. *)
LoadHangs(p) ==
    /\ p \in 1..Len(passes)
    /\ passes[p].pc = "await"
    /\ ~passes[p].load.hung
    /\ faults < MaxFaults
    /\ passes' = [passes EXCEPT ![p].load.hung = TRUE]
    /\ UNCHANGED <<paths, nextPathId, alignment, tileProvider, tileCache, view,
                   ribbonMeta, ribbonRows, scrollLeft, clientWidth, nullServed,
                   failures, providerChanges, loadsStarted, drawMode, drawing,
                   currentGeoPath, status, probe>>

Next ==
    \/ ShowRibbon
    \/ ShowMap
    \/ \E w \in ResizeWidths : Resize(w)
    \/ \E r \in 1..Len(Strokes), c \in 1..Len(Strokes) : RibbonClick(r, c)
    \/ RibbonClickOutside
    \/ \E id \in 1..Len(Strokes) : DeletePath(id)
    \/ ClearAllPaths
    \/ \E providerKey \in ProviderInputs : ChangeTileProvider(providerKey)
    \/ \E p \in 1..MaxPasses, ok \in BOOLEAN : TileLoaded(p, ok)
    \/ \E p \in 1..MaxPasses : LoadHangs(p)

Spec == Init /\ [][Next]_vars

----------------------------------------------------------------------------
(* Drawing: the handlers of the draw canvas and the draw button, from the  *)
(* state after construction (no path, the map shown, nothing cached).      *)

(* The most strokes saved in one behaviour. *)
MaxSaved == 2

(* The strokes the pointer follows; a stroke may stop at any of its points. *)
DrawableStrokes == {Strokes[1], Strokes[2]}

(* The points the pointer can be at next, having drawn buffer. *)
NextPoints(buffer) ==
    {g[Len(buffer) + 1] : g \in {g \in DrawableStrokes :
                                    /\ Len(g) > Len(buffer)
                                    /\ SubSeq(g, 1, Len(buffer)) = buffer}}

(* A stop that would save a stroke of five points. *)
longEnoughFive(geoPath) == Len(geoPath) > 4

(* state.currentGeoPath.length > 5 *)
longEnough(geoPath) == Len(geoPath) > 5

InitDraw ==
    /\ paths = <<>>
    /\ nextPathId = 1
    /\ alignment = NULL
    /\ tileProvider = "voyager"
    /\ tileCache = EmptyCache
    /\ view = "map"
    /\ ribbonMeta = <<>>
    /\ ribbonRows = <<>>
    /\ scrollLeft = RZero
    /\ clientWidth = 1000
    /\ passes = <<>>
    /\ nullServed = FALSE
    /\ failures = 0
    /\ providerChanges = 0
    /\ loadsStarted = 0
    /\ drawMode = FALSE
    /\ drawing = FALSE
    /\ currentGeoPath = <<>>
    /\ status = "Navigate map"
    /\ probe = NoProbe

(* The draw button: setDrawMode(!state.drawMode). *)
SetDrawMode ==
    /\ drawMode' = ~drawMode
    /\ status' = IF ~drawMode THEN "Draw a path" ELSE "Navigate map"
    /\ UNCHANGED <<paths, nextPathId, alignment, tileProvider, tileCache, view,
                   ribbonMeta, ribbonRows, scrollLeft, clientWidth, passes, nullServed,
                   failures, providerChanges, loadsStarted, drawing, currentGeoPath,
                   probe>>

(* mousedown or touchstart on the draw canvas, which takes pointer events  *)
(* in draw mode only: a new stroke begins at point.                        *)
StartDrawing(point) ==
    /\ drawMode
    /\ nextPathId <= MaxSaved
    /\ drawing' = TRUE
    /\ currentGeoPath' = <<point>>
    /\ status' = "Drawing..."
    /\ UNCHANGED <<paths, nextPathId, alignment, tileProvider, tileCache, view,
                   ribbonMeta, ribbonRows, scrollLeft, clientWidth, passes, nullServed,
                   failures, providerChanges, loadsStarted, drawMode, probe>>

(* mousemove or touchmove at point; moved: more than 5 px from the last    *)
(* point of the stroke.  With an empty buffer (after clearAllPaths) the    *)
(* handler throws on lastPos.x before it changes anything.                 *)
Draw(point, moved) ==
    /\ drawMode
    /\ drawing
    /\ IF currentGeoPath # <<>> /\ moved
       THEN currentGeoPath' = Append(currentGeoPath, point)
       ELSE UNCHANGED currentGeoPath
    /\ UNCHANGED <<paths, nextPathId, alignment, tileProvider, tileCache, view,
                   ribbonMeta, ribbonRows, scrollLeft, clientWidth, passes, nullServed,
                   failures, providerChanges, loadsStarted, drawMode, drawing, status,
                   probe>>

(* A savePath that would number the path by its place in the list. *)
savePathNumberedByPlace(pathList, nextId, geoPath) ==
    [paths      |-> Append(pathList, pathData(Len(pathList) + 1, geoPath)),
     nextPathId |-> nextId + 1]

(* savePath: the path gets the id state.nextPathId++ and is pushed onto    *)
(* state.paths.                                                            *)
savePath(pathList, nextId, geoPath) ==
    [paths      |-> Append(pathList, pathData(nextId, geoPath)),
     nextPathId |-> nextId + 1]

(* mouseup, mouseleave, touchend or touchcancel: stopDrawing, and savePath *)
(* for a stroke that is long enough.  savePath ends with                   *)
(* setDrawMode(false), which overwrites its status message.                *)
StopDrawing ==
    /\ drawMode
    /\ drawing
    /\ drawing' = FALSE
    /\ IF longEnough(currentGeoPath)
       THEN /\ paths' = savePath(paths, nextPathId, currentGeoPath).paths
            /\ nextPathId' = savePath(paths, nextPathId, currentGeoPath).nextPathId
            /\ drawMode' = FALSE
            /\ status' = "Navigate map"
       ELSE /\ status' = "Draw a longer path"
            /\ UNCHANGED <<paths, nextPathId, drawMode>>
    /\ currentGeoPath' = <<>>
    /\ UNCHANGED <<alignment, tileProvider, tileCache, view, ribbonMeta, ribbonRows,
                   scrollLeft, clientWidth, passes, nullServed, failures,
                   providerChanges, loadsStarted, probe>>

NextDraw ==
    \/ SetDrawMode
    \/ \E point \in NextPoints(<<>>) : StartDrawing(point)
    \/ \E point \in NextPoints(currentGeoPath), moved \in BOOLEAN : Draw(point, moved)
    \/ StopDrawing
    \/ \E id \in 1..MaxSaved : DeletePath(id)
    \/ ClearAllPaths
    \/ ShowRibbon
    \/ ShowMap
    \/ \E p \in 1..MaxPasses, ok \in BOOLEAN : TileLoaded(p, ok)

SpecDraw == InitDraw /\ [][NextDraw]_vars

----------------------------------------------------------------------------
(* The crossing detector, the layout engine and the click handler as       *)
(* functions: SpecFn starts from one call with its arguments in `probe`    *)
(* and applies the function.                                               *)

(* The most paths in a probed path list. *)
MaxProbePaths == 3

(* Path lists as they are saved: distinct strokes, ids in saving order. *)
ProbePathLists ==
    LET picks == UNION {[1..n -> 1..Len(AllStrokes)] : n \in 1..MaxProbePaths}
        Distinct(s) == \A a, b \in DOMAIN s : a # b => s[a] # s[b]
    IN  {[k \in DOMAIN s |-> pathData(k, AllStrokes[s[k]])] : s \in {s \in picks : Distinct(s)}}

(* Path lists in which one path crosses another at one of its inner       *)
(* points.                                                                 *)
VertexPathLists ==
    {<<pathData(1, Strokes[1]), pathData(2, VertexStroke)>>,
     <<pathData(1, VertexStroke), pathData(2, Strokes[1])>>,
     <<pathData(1, Strokes[2]), pathData(2, VertexStroke), pathData(3, Strokes[1])>>}

(* The alignments a click can have left for pathList, resolvable or not:   *)
(* any crossing key of its paths with any of its ids.                      *)
ProbeAlignments(pathList) ==
    LET crossingsByPath == computeAllCrossings(pathList)
        ids  == DOMAIN crossingsByPath
        keys == UNION {{crossingKey(crossingsByPath[id][c]) :
                            c \in 1..Len(crossingsByPath[id])} : id \in ids}
    IN  {NULL} \cup {[crossingKey |-> key, anchorPathId |-> id] : key \in keys, id \in ids}

(* state.ribbonMeta after a pass over pathList, with state.alignment = al  *)
(* throughout, has rendered every ribbon.                                  *)
ribbonMetaAfter(pathList, lay, al) ==
    [k \in 1..Len(pathList) |->
        ribbonMetaOf(pathList[k], lay.crossingsByPath, drawOffsetOf(lay, pathList[k].id),
                     ribbonWidthOf(pathList[k].geoPath, lay.maxDistance, lay.viewportWidth,
                                   lay.totalCanvasWidth, lay.viewportWidth),
                     [pass |-> 1, pathId |-> pathList[k].id],
                     useRelative(labelOptions(lay.aligned, al, pathList[k],
                                              crossingsOr(lay.crossingsByPath,
                                                          pathList[k].id))))]

(* The end points of the segments given to segmentIntersection. *)
ProbePoints == (0..2) \X (0..2)

(* The geoPaths given to computeCumulativeDistances: every stroke and     *)
(* every beginning of one, down to a single point.                         *)
ProbeGeoPaths ==
    {SubSeq(AllStrokes[s], 1, n) : s \in 1..Len(AllStrokes), n \in 1..6}

(* The numbers of samples the sampler is probed with: the least and the   *)
(* greatest a ribbon can have.                                             *)
SampleCounts == {MinSegments, MaxSegments}

(* The ribbon widths the strips are probed with: every half pixel up to    *)
(* MaxProbeWidth, below, between and above the widths where the number of  *)
(* samples is clamped.                                                     *)
MaxProbeWidth == 700
ProbeRibbonWidths == {Rat(n, 2) : n \in 1..(2 * MaxProbeWidth)}

(* The draw offsets of the probed ribbons. *)
ProbeDrawOffsets == {RZero, Rat(75, 2)}

(* The ribbon container widths of the pointer probes: on the narrow one   *)
(* two markers of a ribbon can lie within one hit radius of the pointer.   *)
PointerWidths == {1000, 100}

(* The fractions of a ribbon the pointer is put at. *)
ProbeFractions == {RZero, Rat(1, 3), Rat(1, 2), Rat(7, 8), RInt(1)}

(* The pointer positions on the canvas of meta: at the fractions above, at *)
(* each marker and at both ends of its hit range, halfway between          *)
(* neighbouring markers, and off the ribbon on both sides.                 *)
ProbePixels(meta) ==
    {RInt(-5), RZero, RSub(meta.padding, RInt(3)),
     RAdd(RAdd(meta.padding, meta.ribbonWidth), RInt(7))}
    \cup {RAdd(meta.padding, RMul(f, meta.ribbonWidth)) : f \in ProbeFractions}
    \cup UNION {{meta.crossings[c].pixelX,
                 RAdd(meta.crossings[c].pixelX, RInt(hitRadius)),
                 RSub(meta.crossings[c].pixelX, RInt(hitRadius))} :
                c \in 1..Len(meta.crossings)}
    \cup {RDiv(RAdd(meta.crossings[c].pixelX, meta.crossings[d].pixelX), RInt(2)) :
            c \in 1..Len(meta.crossings), d \in 1..Len(meta.crossings)}

(* The ribbonMeta lists the pointer probes run on: one or two paths, laid  *)
(* out with or without an alignment.                                       *)
ProbeMetaLists ==
    UNION {{ribbonMetaAfter(pw[1], computeLayout(pw[1], al, pw[2]), al) :
                al \in {a \in ProbeAlignments(pw[1]) :
                           a = NULL \/ computeLayout(pw[1], a, pw[2]).resolved}} :
           pw \in {pl \in ProbePathLists : Len(pl) <= 2} \X PointerWidths}

(* The pointer on the canvas of row r of metaList at x, or (r = 0) on no   *)
(* row.                                                                    *)
PointerProbes(fn) ==
    UNION {{[fn |-> fn, args |-> <<metaList, 0, RZero>>, done |-> FALSE, out |-> NULL]}
           \cup UNION {{[fn |-> fn, args |-> <<metaList, r, x>>, done |-> FALSE, out |-> NULL] :
                           x \in ProbePixels(metaList[r])} : r \in 1..Len(metaList)} :
           metaList \in ProbeMetaLists}

ProbeCalls ==
    PointerProbes("handleRibbonMouseMove")
    \cup
    PointerProbes("handleRibbonClickAt")
    \cup
    {[fn |-> "computeCumulativeDistances", args |-> <<g>>, done |-> FALSE, out |-> NULL] :
        g \in ProbeGeoPaths}
    \cup
    UNION {{[fn |-> "samplePoint", args |-> <<g, n, i>>, done |-> FALSE, out |-> NULL] :
                g \in {h \in ProbeGeoPaths : Len(h) >= 2}, i \in 0..(n - 1)} :
           n \in SampleCounts}
    \cup
    {[fn |-> "renderSingleRibbon", args |-> <<w, o>>, done |-> FALSE, out |-> NULL] :
        w \in ProbeRibbonWidths, o \in ProbeDrawOffsets}
    \cup
    {[fn |-> "findPathCrossings", args |-> <<pl[a], pl[b]>>, done |-> FALSE, out |-> NULL] :
        pl \in {pl \in ProbePathLists : Len(pl) = 2}, a \in 1..2, b \in 1..2}
    \cup
    {[fn |-> "computeAllCrossings", args |-> <<pl>>, done |-> FALSE, out |-> NULL] :
        pl \in ProbePathLists \cup VertexPathLists}
    \cup
    UNION {{[fn |-> "computeLayout", args |-> <<pl, al, w>>, done |-> FALSE, out |-> NULL] :
                al \in ProbeAlignments(pl), w \in ViewportWidths} : pl \in ProbePathLists}
    \cup
    {[fn |-> "segmentIntersection", args |-> <<p1, p2, p3, p4>>, done |-> FALSE, out |-> NULL] :
        p1 \in ProbePoints, p2 \in ProbePoints, p3 \in ProbePoints, p4 \in ProbePoints}
    \cup
    UNION {{[fn |-> "renderTwice", args |-> <<pl, al, w>>, done |-> FALSE, out |-> NULL] :
                al \in ProbeAlignments(pl), w \in ViewportWidths} :
           pl \in {pl \in ProbePathLists : Len(pl) <= 2}}
    \cup
    UNION {UNION {{[fn |-> "handleRibbonClick", args |-> <<pl, al, r, c>>, done |-> FALSE, out |-> NULL] :
                       c \in 0..Len(computeAllCrossings(pl)[pl[r].id])} :
                   al \in ProbeAlignments(pl), r \in 1..Len(pl)} :
           pl \in {pl \in ProbePathLists : Len(pl) <= 2}}

InitFn ==
    /\ paths = <<>>
    /\ nextPathId = 1
    /\ alignment = NULL
    /\ tileProvider = "voyager"
    /\ tileCache = EmptyCache
    /\ view = "map"
    /\ ribbonMeta = <<>>
    /\ ribbonRows = <<>>
    /\ scrollLeft = RZero
    /\ clientWidth = 1000
    /\ passes = <<>>
    /\ nullServed = FALSE
    /\ failures = 0
    /\ providerChanges = 0
    /\ loadsStarted = 0
    /\ drawMode = FALSE
    /\ drawing = FALSE
    /\ currentGeoPath = <<>>
    /\ status = "Navigate map"
    /\ probe \in ProbeCalls

Returns(fn, out) ==
    /\ probe.fn = fn
    /\ ~probe.done
    /\ probe' = [probe EXCEPT !.done = TRUE, !.out = out]
    /\ UNCHANGED <<paths, nextPathId, alignment, tileProvider, tileCache, view,
                   ribbonMeta, ribbonRows, scrollLeft, clientWidth, passes, nullServed,
                   failures, providerChanges, loadsStarted, drawMode, drawing,
                   currentGeoPath, status>>

(* findPathCrossings(pathA, pathB): the segment pairs the loops test and   *)
(* the crossings returned.                                                 *)
CallFindPathCrossings ==
    Returns("findPathCrossings",
            [tested |-> SegmentPairs(Len(probe.args[1].geoPath) - 1,
                                     Len(probe.args[2].geoPath) - 1,
                                     probe.args[1].id = probe.args[2].id),
             crossings |-> findPathCrossings(probe.args[1], probe.args[2])])

CallComputeAllCrossings ==
    Returns("computeAllCrossings", computeAllCrossings(probe.args[1]))

(* The layout of renderAllRibbons(paths, alignment, viewportWidth) and the *)
(* scroll position it applies at its end.                                  *)
CallComputeLayout ==
    LET lay == computeLayout(probe.args[1], probe.args[2], probe.args[3])
    IN  Returns("computeLayout", [layout |-> lay, scrollLeft |-> scrollApplied(lay)])

(* handleRibbonClick on the ribbons of an unaligned pass at width 1000,    *)
(* with state.alignment = args[2]: a click at the c-th marker of row r, or *)
(* (c = 0) in the container outside every canvas.                          *)
CallHandleRibbonClick ==
    LET pl   == probe.args[1]
        r    == probe.args[3]
        c    == probe.args[4]
        meta == ribbonMetaAfter(pl, computeLayout(pl, NULL, 1000), NULL)
    IN  Returns("handleRibbonClick",
                IF c = 0 THEN handleRibbonClick(meta, probe.args[2], NULL, RZero)
                ELSE handleRibbonClick(meta, probe.args[2], meta[r].row,
                                       meta[r].crossings[c].pixelX))

CallSegmentIntersection ==
    Returns("segmentIntersection",
            segmentIntersection(probe.args[1], probe.args[2], probe.args[3], probe.args[4]))

CallComputeCumulativeDistances ==
    Returns("computeCumulativeDistances", computeCumulativeDistances(probe.args[1]))

(* The layout stage of two renderAllRibbons calls in a row over the same   *)
(* paths and width: the second starts from the state.alignment the first   *)
(* has left.                                                               *)
laidOutAgain(pathList, viewportWidth, first, alignmentAfter) ==
    [first |-> first, alignmentAfter |-> alignmentAfter,
     second |-> computeLayout(pathList, alignmentAfter, viewportWidth)]

laidOutTwice(pathList, al, viewportWidth, first) ==
    laidOutAgain(pathList, viewportWidth, first, alignmentAfterLayout(al, first))

CallRenderTwice ==
    Returns("renderTwice",
            laidOutTwice(probe.args[1], probe.args[2], probe.args[3],
                         computeLayout(probe.args[1], probe.args[2], probe.args[3])))

(* The row element of a pointer probe. *)
ProbeRow == IF probe.args[2] = 0 THEN NULL ELSE probe.args[1][probe.args[2]].row

CallHandleRibbonMouseMove ==
    Returns("handleRibbonMouseMove",
            handleRibbonMouseMove(probe.args[1], ProbeRow, probe.args[3]))

(* handleRibbonClick at a pointer position, with no alignment set. *)
CallHandleRibbonClickAt ==
    Returns("handleRibbonClickAt",
            handleRibbonClick(probe.args[1], NULL, ProbeRow, probe.args[3]))

(* One turn of the sample loop of renderSingleRibbon: the target distance, *)
(* the segment found, the local fraction and the interpolated point.       *)
CallSamplePoint ==
    LET geoPath    == probe.args[1]
        distances  == computeCumulativeDistances(geoPath)
        targetDist == targetDistOf(distances, probe.args[2], probe.args[3])
        segIdx     == segIdxOf(distances, targetDist)
    IN  Returns("samplePoint",
                [distances  |-> distances,
                 targetDist |-> targetDist,
                 segIdx     |-> segIdx,
                 t          |-> localFraction(distances, targetDist, segIdx),
                 point      |-> samplePoint(geoPath, distances, probe.args[2], probe.args[3])])

(* The sample count, the strip width and the strips renderSingleRibbon     *)
(* draws for a ribbon of the given width and draw offset.                  *)
CallRenderSingleRibbon ==
    LET ribbonWidth      == probe.args[1]
        effectivePadding == RAdd(RInt(padding), probe.args[2])
    IN  Returns("renderSingleRibbon",
                [numSegments      |-> numSegmentsOf(ribbonWidth),
                 segmentWidth     |-> segmentWidthOf(ribbonWidth),
                 effectivePadding |-> effectivePadding,
                 strips           |-> stripsOf(effectivePadding, ribbonWidth)])

NextFn ==
    \/ CallRenderSingleRibbon
    \/ CallSamplePoint
    \/ CallHandleRibbonMouseMove
    \/ CallHandleRibbonClickAt
    \/ CallRenderTwice
    \/ CallComputeCumulativeDistances
    \/ CallSegmentIntersection
    \/ CallFindPathCrossings
    \/ CallComputeAllCrossings
    \/ CallComputeLayout
    \/ CallHandleRibbonClick

SpecFn == InitFn /\ [][NextFn]_vars

----------------------------------------------------------------------------
(* Properties of the render passes and the tile cache.                     *)

PassIds == 1..Len(passes)

Stale(p) == passes[p].layout.aligned /\ ~passes[p].layout.resolved

Hung(p) == passes[p].pc = "await" /\ passes[p].load.hung

(* Pass p starts a loadTile in this step. *)
StartsLoad(p) ==
    /\ p \in 1..Len(passes')
    /\ passes'[p].pc = "await"
    /\ p \in 1..Len(passes) /\ passes[p].pc = "await"
           => passes'[p].load.key # passes[p].load.key

(* C1: a pass that starts with an alignment whose anchor path or anchor    *)
(* crossing no longer resolves clears the alignment and ends as a normal   *)
(* unaligned render, without raising an error.                             *)
C1_StaleAlignmentRecovers ==
    \A p \in PassIds : Stale(p) => passes[p].pc # "thrown"

(* C2: for every tile key at most one loadTile fetch is in flight, even    *)
(* when two passes request the same key before the first fetch resolves.   *)
C2_OneFetchInFlightPerKey ==
    \A p, q \in PassIds :
        /\ p # q
        /\ passes[p].pc = "await"
        /\ passes[q].pc = "await"
        /\ passes[p].load.provider = passes[q].load.provider
        => passes[p].load.key # passes[q].load.key

(* C3: once a newer pass has started, an earlier pass appends no further   *)
(* ribbon row: every row in the container belongs to the latest pass (a    *)
(* starting pass removes all rows that were there).                        *)
C3_SupersededPassAppendsNoRow ==
    \A r \in 1..Len(ribbonRows) : ribbonRows[r].pass = Len(passes)

(* C4: among the ribbons one pass has rendered with a resolved alignment,  *)
(* the matching crossing of every other ribbon lies at the same pixel      *)
(* position as the anchor's crossing.                                      *)
C4_Matched(a, b) ==
    /\ a \in 1..Len(ribbonMeta)
    /\ b \in 1..Len(ribbonMeta)
    /\ a # b
    /\ ribbonMeta[a].row.pass = ribbonMeta[b].row.pass
    /\ LET pass == passes[ribbonMeta[a].row.pass]
       IN  /\ pass.layout.resolved
           /\ ribbonMeta[a].pathId = pass.alignment0.anchorPathId
           /\ findCrossing(ribbonMeta[b].crossings, pass.alignment0.crossingKey) # NULL

C4_AlignedCrossingsCoincide ==
    \A a, b \in 1..Len(ribbonMeta) :
        C4_Matched(a, b) =>
            LET key == passes[ribbonMeta[a].row.pass].alignment0.crossingKey
            IN  findCrossing(ribbonMeta[b].crossings, key).pixelX
                    = findCrossing(ribbonMeta[a].crossings, key).pixelX

C4_Witness ==
    \E a, b \in 1..Len(ribbonMeta) :
        /\ C4_Matched(a, b)
        /\ passes[ribbonMeta[a].row.pass].pc = "done"
        /\ ribbonMeta[b].padding # RInt(padding)

(* C5: in every layout with a resolved alignment no ribbon's left edge,    *)
(* padding + drawOffset after the global shift, is negative.               *)
C5_NoNegativeLeftEdge ==
    probe.fn = "computeLayout" /\ probe.done /\ probe.out.layout.resolved =>
        \A id \in DOMAIN probe.out.layout.drawOffsets :
            RLe(RZero, RAdd(RInt(padding), probe.out.layout.drawOffsets[id]))

C5_Witness ==
    /\ probe.fn = "computeLayout"
    /\ probe.done
    /\ probe.out.layout.resolved
    /\ RLt(RZero, probe.out.layout.globalShift)

(* C6: a getTile request for a key that is in the cache, as an image or as *)
(* a failure, starts no fetch: every loadTile is for a key the cache does  *)
(* not hold at that moment.                                                *)
C6_CachedKeyNotFetchedAgain ==
    [][\A p \in 1..MaxPasses :
          StartsLoad(p) => passes'[p].load.key \notin DOMAIN tileCache']_vars

C6_Witness == nullServed

C8_HungFetchStallsOnlyItsTile ==
    \A p \in PassIds :
        Hung(p) =>
            /\ passes[p].i = passes[p].numSegments - 1
            /\ passes[p].k = 9
            /\ passes[p].next = Len(IF passes[p].live THEN paths ELSE passes[p].arr)

(* C9: when every fetch resolves, whichever of them fail, no pass is       *)
(* aborted: none ends in an error.                                         *)
C9_RenderNeverAborted ==
    (\A q \in PassIds : ~Hung(q)) => \A p \in PassIds : passes[p].pc # "thrown"

(* C10: no interleaving of user events with a suspended pass makes a pass  *)
(* raise an error: a pass that started with a resolved alignment never     *)
(* reads the alignment after another event has set it to null.             *)
C10_AlignedPassNeverThrows ==
    \A p \in PassIds : passes[p].layout.resolved => passes[p].pc # "thrown"


(* The first crossing marker of meta within the hit radius of canvasX. *)
FirstHit(meta, canvasX) ==
    Find(meta.crossings,
         LAMBDA crossing : RLt(RAbs(RSub(canvasX, crossing.pixelX)), RInt(hitRadius)))

(* The click positions on a ribbon: each marker, and the ends of each      *)
(* marker's hit range.                                                     *)
ClickXs(meta) ==
    {RZero} \cup
    UNION {{meta.crossings[c].pixelX,
            RAdd(meta.crossings[c].pixelX, RInt(hitRadius)),
            RSub(meta.crossings[c].pixelX, RInt(hitRadius))} :
           c \in 1..Len(meta.crossings)}

(* C11: the alignment is only ever set to the key of the first crossing    *)
(* hit by a click, together with the clicked ribbon's path id, and only if *)
(* that crossing is with another path; a click whose first hit is a        *)
(* self-crossing yields no alignment and re-renders exactly if one was set.*)
C11_AlignmentSetOnlyByNonSelfClick ==
    [][/\ alignment' # NULL /\ alignment' # alignment =>
            \E r \in 1..Len(ribbonMeta) : \E x \in ClickXs(ribbonMeta[r]) :
                LET hit == FirstHit(ribbonMeta[r], x)
                IN  /\ hit # NULL
                    /\ hit.otherPathId # ribbonMeta[r].pathId
                    /\ alignment' = [crossingKey |-> crossingKey(hit),
                                     anchorPathId |-> ribbonMeta[r].pathId]
       /\ \A r \in 1..Len(ribbonMeta) : \A x \in ClickXs(ribbonMeta[r]) :
            LET hit == FirstHit(ribbonMeta[r], x)
                out == handleRibbonClick(ribbonMeta, alignment, ribbonMeta[r].row, x)
            IN  hit # NULL /\ hit.otherPathId = ribbonMeta[r].pathId =>
                    out.alignment = NULL /\ (out.render <=> alignment # NULL)]_vars

C11_Witness ==
    /\ alignment # NULL
    /\ \E r \in 1..Len(ribbonMeta) : \E c \in 1..Len(ribbonMeta[r].crossings) :
           ribbonMeta[r].crossings[c].otherPathId = ribbonMeta[r].pathId

(* C12: a click within the hit radius of no marker, on a ribbon or beside  *)
(* the ribbons, leaves no alignment; it starts a render exactly if an      *)
(* alignment was set.                                                      *)
C12_MissOutcome(out) ==
    out.alignment = NULL /\ (out.render <=> alignment # NULL)

C12_ClickOnNothingResets ==
    /\ C12_MissOutcome(handleRibbonClick(ribbonMeta, alignment, NULL, RZero))
    /\ \A r \in 1..Len(ribbonMeta) : \A x \in ClickXs(ribbonMeta[r]) :
           FirstHit(ribbonMeta[r], x) = NULL =>
               C12_MissOutcome(handleRibbonClick(ribbonMeta, alignment,
                                                 ribbonMeta[r].row, x))

C12_Witness ==
    /\ alignment = NULL
    /\ \E p \in PassIds : passes[p].alignment0 # NULL /\ passes[p].layout.resolved
    /\ Len(ribbonMeta) > 0

(* The events of list whose other path is otherPathId, in list order. *)
EventsWith(list, otherPathId) ==
    SelectSeq(list, LAMBDA event : event.otherPathId = otherPathId)

(* A probe of fn has returned. *)
Returned(fn) == probe.fn = fn /\ probe.done

(* C13: computeAllCrossings is symmetric: for two distinct paths A and B   *)
(* the A-B events of A's list and the B-A events of B's list are equally   *)
(* many and match one to one: same (lat, lng), B's event at the crossing's *)
(* fraction along B and A's at its fraction along A, as the detection run  *)
(* from B's side measures them.                                            *)
C13_CrossingsSymmetric ==
    Returned("computeAllCrossings") =>
        LET pathList == probe.args[1]
        IN  \A a, b \in 1..Len(pathList) : a # b =>
                LET inA  == EventsWith(probe.out[pathList[a].id], pathList[b].id)
                    inB  == EventsWith(probe.out[pathList[b].id], pathList[a].id)
                    fromB == pathCrossings(pathList[b], pathList[a])
                IN  /\ Len(inA) = Len(inB)
                    /\ \A k \in 1..Len(inA) :
                          /\ inA[k].lat = inB[k].lat
                          /\ inA[k].lng = inB[k].lng
                          /\ \E c \in 1..Len(fromB) :
                                /\ fromB[c].lat = inB[k].lat
                                /\ fromB[c].lng = inB[k].lng
                                /\ fromB[c].distFractionA = inB[k].distFraction
                                /\ fromB[c].distFractionB = inA[k].distFraction

C13_Witness ==
    /\ Returned("computeAllCrossings")
    /\ \E a, b \in 1..Len(probe.args[1]) :
          /\ a < b
          /\ LET inA == EventsWith(probe.out[probe.args[1][a].id], probe.args[1][b].id)
                 inB == EventsWith(probe.out[probe.args[1][b].id], probe.args[1][a].id)
             IN  Len(inA) > 0 /\ inA[1].distFraction # inB[1].distFraction

(* C14: findPathCrossings(path, path) tests no segment against itself or   *)
(* its successor: every tested pair (i, j) has j >= i + 2, every reported  *)
(* crossing is the intersection of such a pair, and no unordered pair is   *)
(* tested twice.                                                           *)
C14_SelfCrossingSkipsAdjacent ==
    Returned("findPathCrossings") /\ probe.args[1].id = probe.args[2].id =>
        LET g      == probe.args[1].geoPath
            tested == probe.out.tested
        IN  /\ \A k \in 1..Len(tested) : tested[k][2] >= tested[k][1] + 2
            /\ \A k, l \in 1..Len(tested) :
                   k # l => {tested[k][1], tested[k][2]} # {tested[l][1], tested[l][2]}
            /\ \A c \in 1..Len(probe.out.crossings) :
                   \E k \in 1..Len(tested) :
                       LET i == tested[k][1]
                           j == tested[k][2]
                           result == segmentIntersection(g[i], g[i + 1], g[j], g[j + 1])
                       IN  /\ j >= i + 2
                           /\ result # NULL
                           /\ result.lat = probe.out.crossings[c].lat
                           /\ result.lng = probe.out.crossings[c].lng

C14_Witness ==
    /\ Returned("findPathCrossings")
    /\ probe.args[1].id = probe.args[2].id
    /\ Len(probe.out.crossings) > 0

(* The pairs of non-adjacent segments of geoPath that intersect. *)
CrossingSegmentPairs(g) ==
    {pair \in (1..(Len(g) - 1)) \X (1..(Len(g) - 1)) :
        /\ pair[2] >= pair[1] + 2
        /\ segmentIntersection(g[pair[1]], g[pair[1] + 1],
                               g[pair[2]], g[pair[2] + 1]) # NULL}

(* C15: each self-crossing of a path puts exactly two events on that       *)
(* path's own list, one at distFractionA and one at distFractionB, both    *)
(* with the path's own id and the crossing's (lat, lng); a path with one   *)
(* crossing pair of non-adjacent segments has exactly two self entries.    *)
C15_SelfCrossingTwoEvents ==
    Returned("computeAllCrossings") =>
        \A k \in 1..Len(probe.args[1]) :
            LET path == probe.args[1][k]
                own  == EventsWith(probe.out[path.id], path.id)
                self == pathCrossings(path, path)
                n    == Cardinality(CrossingSegmentPairs(path.geoPath))
            IN  /\ Len(self) = n
                /\ Len(own) = 2 * n
                /\ \A c \in 1..n :
                      /\ own[2 * c - 1].distFraction = self[c].distFractionA
                      /\ own[2 * c].distFraction = self[c].distFractionB
                      /\ \A e \in {2 * c - 1, 2 * c} :
                            /\ own[e].lat = self[c].lat
                            /\ own[e].lng = self[c].lng
                            /\ own[e].otherPathId = path.id

C15_Witness ==
    /\ Returned("computeAllCrossings")
    /\ \E k \in 1..Len(probe.args[1]) :
          /\ Cardinality(CrossingSegmentPairs(probe.args[1][k].geoPath)) = 1
          /\ Len(EventsWith(probe.out[probe.args[1][k].id], probe.args[1][k].id)) = 2

(* The distances of the paths of pathList, in order. *)
DistancesOf(pathList) == [k \in 1..Len(pathList) |-> pathList[k].distance]

(* C16: every ribbon's width is distance / maxDistance * (viewportWidth -   *)
(* 2 * padding) with padding 20, in the layout and in renderSingleRibbon:  *)
(* the longest path gets viewportWidth - 40, no ribbon is wider, and paths *)
(* of 1000, 500 and 2000 m at viewport 1000 get 480, 240 and 960.          *)
C16_RibbonWidthProportional ==
    Returned("computeLayout") =>
        LET pathList == probe.args[1]
            w        == probe.args[3]
            lay      == probe.out.layout
            dist     == DistancesOf(pathList)
            longest  == CHOOSE k \in 1..Len(dist) : \A l \in 1..Len(dist) : dist[l] <= dist[k]
            Width(k) == lay.layouts[k].ribbonWidth
        IN  /\ \A k \in 1..Len(pathList) :
                  /\ Width(k) = RMul(Rat(dist[k], dist[longest]), RInt(w - 40))
                  /\ RLe(Width(k), RInt(w - 40))
                  /\ ribbonWidthOf(pathList[k].geoPath, lay.maxDistance, w,
                                   lay.totalCanvasWidth, w) = Width(k)
            /\ Width(longest) = RInt(w - 40)
            /\ dist = <<1000, 500, 2000>> /\ w = 1000 =>
                   /\ Width(1) = RInt(480)
                   /\ Width(2) = RInt(240)
                   /\ Width(3) = RInt(960)

C16_Witness ==
    /\ Returned("computeLayout")
    /\ DistancesOf(probe.args[1]) = <<1000, 500, 2000>>
    /\ probe.args[3] = 1000
    /\ probe.out.layout.layouts[3].ribbonWidth = RInt(960)

(* Pass p returns in this step, being suspended before it or started by it *)
(* over at least one path.                                                 *)
Completes(p) ==
    /\ p <= Len(passes')
    /\ passes'[p].pc = "done"
    /\ IF p <= Len(passes) THEN passes[p].pc = "await" ELSE Len(paths) > 0

(* C17: a pass begun with no alignment set renders every ribbon with       *)
(* drawOffset 0, its left edge at the padding of 20, forces no canvas      *)
(* width (the default, the viewport width, applies), and sets the          *)
(* horizontal scroll position to 0 when it has rendered its ribbons.       *)
C17_UnalignedLayoutIsFlush ==
    [][/\ \A p \in 1..Len(passes') :
            passes'[p].alignment0 = NULL /\ passes'[p].pc \in {"run", "await"} =>
                /\ passes'[p].drawOffset = RZero
                /\ passes'[p].layout.drawOffsets = <<>>
                /\ passes'[p].layout.totalCanvasWidth = RZero
       /\ \A r \in 1..Len(ribbonMeta') :
            passes'[ribbonMeta'[r].row.pass].alignment0 = NULL =>
                /\ ribbonMeta'[r].padding = RInt(20)
                /\ \A c \in 1..Len(ribbonMeta'[r].crossings) :
                       ribbonMeta'[r].crossings[c].pixelX =
                           RAdd(RInt(20), RMul(ribbonMeta'[r].crossings[c].distFraction,
                                               ribbonMeta'[r].ribbonWidth))
       /\ \A p \in 1..MaxPasses :
            Completes(p) /\ passes'[p].alignment0 = NULL => scrollLeft' = RZero]_vars

C17_Witness ==
    /\ Len(passes) > 1
    /\ passes[Len(passes)].pc = "done"
    /\ passes[Len(passes)].alignment0 = NULL
    /\ passes[Len(passes) - 1].alignment0 # NULL
    /\ Len(ribbonMeta) > 1
    /\ \A r \in 1..Len(ribbonMeta) : ribbonMeta[r].row.pass = Len(passes)
    /\ scrollLeft = RZero

(* The right edge of ribbon k of a resolved layout before the global       *)
(* shift: padding + (drawOffset - globalShift) + ribbonWidth.              *)
RightEdge(lay, k) ==
    RAdd(RAdd(RInt(padding),
              RSub(lay.drawOffsets[lay.layouts[k].pathId], lay.globalShift)),
         lay.layouts[k].ribbonWidth)

(* The greatest right edge over all ribbons of a resolved layout. *)
MaxRightEdge(lay) ==
    LET edges == {RightEdge(lay, k) : k \in 1..Len(lay.layouts)}
    IN  CHOOSE e \in edges : \A f \in edges : RLe(f, e)

(* C18: in an aligned layout whose anchor resolves, the total canvas width *)
(* is maxRightEdge + globalShift + padding, with maxRightEdge over all     *)
(* ribbons before the shift, and the scroll position applied is            *)
(* max(0, anchorX + globalShift - viewportWidth / 2), anchorX being the    *)
(* anchor's crossing pixel before the shift.                               *)
C18_AlignedCanvasAndScroll ==
    Returned("computeLayout") /\ probe.out.layout.resolved =>
        LET lay    == probe.out.layout
            align  == probe.args[2]
            w      == probe.args[3]
            anchor == CHOOSE k \in 1..Len(lay.layouts) :
                          lay.layouts[k].pathId = align.anchorPathId
            cross  == findCrossing(lay.crossingsByPath[align.anchorPathId],
                                   align.crossingKey)
            anchorX == RAdd(RInt(20), RMul(cross.distFraction,
                                           lay.layouts[anchor].ribbonWidth))
        IN  /\ lay.anchorX = anchorX
            /\ lay.totalCanvasWidth =
                   RAdd(RAdd(MaxRightEdge(lay), lay.globalShift), RInt(20))
            /\ probe.out.scrollLeft =
                   RMax(RZero, RSub(RAdd(anchorX, lay.globalShift), Rat(w, 2)))

C18_Witness ==
    /\ Returned("computeLayout")
    /\ probe.out.layout.resolved
    /\ RLt(RZero, probe.out.layout.globalShift)
    /\ RLt(RZero, probe.out.scrollLeft)
    /\ Len(probe.args[1]) > 1

(* A pass is begun in this step and is at its first tile fetch, or drawing, *)
(* when the step ends.                                                     *)
Begun ==
    /\ Len(passes') = Len(passes) + 1
    /\ passes'[Len(passes')].pc \in {"run", "await"}

(* C19: when a pass reaches its first tile fetch, the crossings of all     *)
(* paths and the whole layout (every width, the draw offsets, the canvas   *)
(* width and the scroll target) have been computed from the paths and the  *)
(* alignment the pass began with: nothing suspends the pass, and no fetch  *)
(* begins, between its start and the end of the layout computation.        *)
C19_LayoutBeforeFirstFetch ==
    [][/\ Begun =>
            LET pass == passes'[Len(passes')]
                lay  == pass.layout
                ids  == {paths'[k].id : k \in 1..Len(paths')}
            IN  /\ lay.crossingsByPath = computeAllCrossings(paths')
                /\ Len(lay.layouts) = Len(paths')
                /\ \A k \in 1..Len(paths') :
                      /\ lay.layouts[k].pathId = paths'[k].id
                      /\ lay.layouts[k].ribbonWidth =
                             layoutRibbonWidth(paths'[k].distance, lay.maxDistance,
                                               clientWidth')
                /\ lay.aligned = (pass.alignment0 # NULL)
                /\ lay.resolved => DOMAIN lay.drawOffsets = ids
                /\ lay.resolved => lay.scrollTarget =
                       RSub(RAdd(lay.anchorX, lay.globalShift), Rat(clientWidth', 2))
                /\ ~lay.resolved => lay.totalCanvasWidth = RZero
                /\ loadsStarted' <= loadsStarted + 1
                /\ loadsStarted' = loadsStarted + 1 => pass.pc = "await"
       /\ \A p \in 1..Len(passes') :
            passes'[p].pc = "await" =>
                /\ Len(passes'[p].layout.layouts) > 0
                /\ passes'[p].path # NULL
                /\ passes'[p].path.id \in DOMAIN passes'[p].layout.crossingsByPath]_vars

C19_Witness ==
    /\ Len(passes) > 0
    /\ passes[Len(passes)].pc = "await"
    /\ passes[Len(passes)].layout.resolved
    /\ passes[Len(passes)].rendered = <<>>
    /\ loadsStarted > 0

(* C20: changeTileProvider with a known provider other than the current    *)
(* one switches to it and empties the tile cache; with an unknown key or   *)
(* the current provider it changes neither the provider nor the cache.     *)
(* The provider changes in no other way.                                   *)
C20_ProviderChangeClearsCache ==
    [][/\ \A providerKey \in ProviderInputs :
            LET after == changeTileProvider(tileProvider, tileCache, providerKey)
            IN  IF providerKey \in Providers /\ providerKey # tileProvider
                THEN after.tileProvider = providerKey /\ after.tileCache = EmptyCache
                ELSE after.tileProvider = tileProvider /\ after.tileCache = tileCache
       /\ tileProvider' # tileProvider =>
            /\ tileProvider' \in Providers
            /\ tileCache' = EmptyCache
            /\ providerChanges' = providerChanges + 1
       /\ providerChanges' = providerChanges => tileProvider' = tileProvider]_vars

C20_Witness ==
    /\ providerChanges > 0
    /\ tileProvider = "dark"
    /\ tileCache = EmptyCache

(* The cross product of the direction vectors of p1-p2 and p3-p4. *)
CrossProduct(p1, p2, p3, p4) ==
    (p2[1] - p1[1]) * (p4[2] - p3[2]) - (p2[2] - p1[2]) * (p4[1] - p3[1])

(* The point p + t * (q - p) as <<lat, lng>>. *)
PointOnSegment(p, q, t) ==
    << RAdd(RInt(p[1]), RMul(t, RInt(q[1] - p[1]))),
       RAdd(RInt(p[2]), RMul(t, RInt(q[2] - p[2]))) >>

(* The parameter pairs (t, u) in [0,1] x [0,1], in steps of 1/c, at which  *)
(* p1 + t * (p2 - p1) = p3 + u * (p4 - p3); c is the magnitude of the      *)
(* cross product, and the solution of the two equations is a multiple of   *)
(* 1/c.                                                                    *)
CommonPoints(p1, p2, p3, p4, c) ==
    {tu \in (0..c) \X (0..c) :
        \A x \in 1..2 :
            c * p1[x] + tu[1] * (p2[x] - p1[x]) = c * p3[x] + tu[2] * (p4[x] - p3[x])}

(* C21: segmentIntersection returns null when the cross product of the two *)
(* directions vanishes (parallel, coincident or zero-length segments) and  *)
(* when t or u is outside [0,1]; otherwise the point with t and u in [0,1] *)
(* that lies on both segments; (0,0)-(1,1) and (0,1)-(1,0) give            *)
(* t = u = 1/2.                                                            *)
C21_SegmentIntersection ==
    Returned("segmentIntersection") =>
        LET p1 == probe.args[1]
            p2 == probe.args[2]
            p3 == probe.args[3]
            p4 == probe.args[4]
            c  == Abs(CrossProduct(p1, p2, p3, p4))
            common == CommonPoints(p1, p2, p3, p4, c)
        IN  /\ c = 0 => probe.out = NULL
            /\ c # 0 /\ common = {} => probe.out = NULL
            /\ c # 0 /\ common # {} =>
                  /\ probe.out # NULL
                  /\ <<probe.out.t.n * (c \div probe.out.t.d),
                       probe.out.u.n * (c \div probe.out.u.d)>> \in common
                  /\ RLe(RZero, probe.out.t) /\ RLe(probe.out.t, RInt(1))
                  /\ RLe(RZero, probe.out.u) /\ RLe(probe.out.u, RInt(1))
                  /\ PointOnSegment(p1, p2, probe.out.t) = <<probe.out.lat, probe.out.lng>>
                  /\ PointOnSegment(p3, p4, probe.out.u) = <<probe.out.lat, probe.out.lng>>
            /\ <<p1, p2, p3, p4>> = << <<0, 0>>, <<1, 1>>, <<0, 1>>, <<1, 0>> >> =>
                  probe.out # NULL /\ probe.out.t = Rat(1, 2) /\ probe.out.u = Rat(1, 2)

C21_Witness ==
    /\ Returned("segmentIntersection")
    /\ probe.args = << <<0, 0>>, <<1, 1>>, <<0, 1>>, <<1, 0>> >>
    /\ probe.out # NULL
    /\ probe.out.lat = Rat(1, 2)

(* The sum of the point-to-point distances of geoPath up to point k. *)
RECURSIVE DistanceTo(_, _)
DistanceTo(geoPath, k) ==
    IF k <= 1 THEN 0
    ELSE DistanceTo(geoPath, k - 1)
         + haversine(geoPath[k - 1][1], geoPath[k - 1][2], geoPath[k][1], geoPath[k][2])

(* The fraction of geoPath's length at parameter t of its segment i: the   *)
(* distance at the segment's start plus t times the segment's length, over *)
(* the total; 0 for a path of length 0.                                    *)
FractionAlong(geoPath, i, t) ==
    LET total == DistanceTo(geoPath, Len(geoPath))
    IN  IF total = 0 THEN RZero
        ELSE RDiv(RAdd(RInt(DistanceTo(geoPath, i)),
                       RMul(t, RInt(DistanceTo(geoPath, i + 1) - DistanceTo(geoPath, i)))),
                  RInt(total))

(* The tested segment pairs that intersect, in the order tested. *)
HitPairs(gA, gB, tested) ==
    SelectSeq(tested,
              LAMBDA pair : segmentIntersection(gA[pair[1]], gA[pair[1] + 1],
                                                gB[pair[2]], gB[pair[2] + 1]) # NULL)

InUnitInterval(x) == RLe(RZero, x) /\ RLe(x, RInt(1))

(* A path of six equal points, of total distance 0. *)
StillPath == [k \in 1..6 |-> <<0, 0>>]

(* C22: every crossing's distFraction lies in [0,1] and is the cumulative  *)
(* distance at the start of the crossed segment plus t (for A) or u (for   *)
(* B) times that segment's length, divided by the owning path's total      *)
(* distance; on a path of total distance 0 the fraction is 0.              *)
C22_FractionAlongOwnPath ==
    /\ Returned("findPathCrossings") =>
        LET gA   == probe.args[1].geoPath
            gB   == probe.args[2].geoPath
            hits == HitPairs(gA, gB, probe.out.tested)
        IN  /\ Len(probe.out.crossings) = Len(hits)
            /\ \A k \in 1..Len(hits) :
                  LET i == hits[k][1]
                      j == hits[k][2]
                      r == segmentIntersection(gA[i], gA[i + 1], gB[j], gB[j + 1])
                      c == probe.out.crossings[k]
                  IN  /\ c.distFractionA = FractionAlong(gA, i, r.t)
                      /\ c.distFractionB = FractionAlong(gB, j, r.u)
                      /\ InUnitInterval(c.distFractionA)
                      /\ InUnitInterval(c.distFractionB)
                      /\ LET still == crossingOf([i |-> 1, j |-> j, result |-> r],
                                                 computeCumulativeDistances(StillPath),
                                                 computeCumulativeDistances(gB))
                         IN  /\ still.distFractionA = RZero
                             /\ still.distFractionB = c.distFractionB
    /\ Returned("computeAllCrossings") =>
        \A id \in DOMAIN probe.out : \A e \in 1..Len(probe.out[id]) :
            InUnitInterval(probe.out[id][e].distFraction)

C22_Witness ==
    /\ Returned("findPathCrossings")
    /\ probe.args[1].id # probe.args[2].id
    /\ Len(probe.out.crossings) > 1
    /\ \E k \in 1..Len(probe.out.crossings) :
          /\ RLt(RZero, probe.out.crossings[k].distFractionA)
          /\ RLt(probe.out.crossings[k].distFractionA, RInt(1))
          /\ probe.out.crossings[k].distFractionA # probe.out.crossings[k].distFractionB

(* C23: for a path of at least one point computeCumulativeDistances        *)
(* returns as many entries as the path has points, the first 0, none less  *)
(* than the one before, and the last the sum of the point-to-point         *)
(* distances, which is the distance savePath stores.                       *)
C23_CumulativeDistances ==
    Returned("computeCumulativeDistances") =>
        LET g == probe.args[1]
        IN  /\ Len(probe.out) = Len(g)
            /\ probe.out[1] = 0
            /\ \A k \in 2..Len(g) : probe.out[k - 1] <= probe.out[k]
            /\ \A k \in 1..Len(g) : probe.out[k] = DistanceTo(g, k)
            /\ probe.out[Len(g)] = pathData(1, g).distance

C23_Witness ==
    /\ Returned("computeCumulativeDistances")
    /\ Len(probe.args[1]) = 6
    /\ probe.out[6] = 2000
    /\ probe.out[2] > 0

(* drawing stops in this step. *)
Stops == drawing /\ ~drawing'

(* C24: a stroke is saved as a path exactly if it has at least 6 points    *)
(* when drawing stops; a shorter one leaves the saved paths as they are    *)
(* and sets the status message 'Draw a longer path'.  So every saved path  *)
(* has at least 6 points.                                                  *)
C24_SavedIffSixPoints ==
    [][/\ Stops =>
            IF Len(currentGeoPath) >= 6
            THEN /\ Len(paths') = Len(paths) + 1
                 /\ SubSeq(paths', 1, Len(paths)) = paths
                 /\ paths'[Len(paths')].geoPath = currentGeoPath
            ELSE /\ paths' = paths
                 /\ status' = "Draw a longer path"
       /\ Len(paths') > Len(paths) => Stops /\ Len(currentGeoPath) >= 6
       /\ \A k \in 1..Len(paths') : Len(paths'[k].geoPath) >= 6]_vars

C24_Witness ==
    /\ Len(paths) > 0
    /\ status = "Draw a longer path"

(* C25: the point sequence and the distance of a saved path never change:  *)
(* in every step, whatever detects crossings, lays out, renders, draws or  *)
(* deletes, a path that stays saved keeps its geoPath and its distance,    *)
(* and a path is saved with the points of the stroke just drawn.           *)
C25_SavedPathImmutable ==
    [][/\ \A k \in 1..Len(paths) : \A l \in 1..Len(paths') :
            paths[k].id = paths'[l].id =>
                /\ paths'[l].geoPath = paths[k].geoPath
                /\ paths'[l].distance = paths[k].distance
       /\ \A l \in 1..Len(paths') :
            (\A k \in 1..Len(paths) : paths[k].id # paths'[l].id) =>
                /\ paths'[l].geoPath = currentGeoPath
                /\ paths'[l].distance = DistanceTo(currentGeoPath, Len(currentGeoPath))]_vars

C25_Witness ==
    /\ Len(paths) = 1
    /\ paths[1].id = 2
    /\ paths[1].geoPath = Strokes[1]
    /\ \E p \in PassIds : /\ passes[p].pc = "await"
                          /\ \E id \in DOMAIN passes[p].layout.crossingsByPath :
                                 passes[p].layout.crossingsByPath[id] # <<>>
    /\ loadsStarted > 1

ProbedMeta == probe.args[1][probe.args[2]]

(* C27: the pixel-to-fraction mapping of the hover label stays within      *)
(* [0,1] for every pixel and inverts the crossing-to-pixel mapping: for a  *)
(* fraction f in [0,1] the pixel padding + f * ribbonWidth, with the       *)
(* ribbon's effective padding (20 + draw offset), maps back to f; so every *)
(* crossing marker maps back to its distFraction.                          *)
C27_PixelFractionInverse ==
    Returned("handleRibbonMouseMove") /\ probe.args[2] # 0 =>
        LET meta == ProbedMeta
            x    == probe.args[3]
        IN  /\ InUnitInterval(probe.out.fraction)
            /\ \A f \in ProbeFractions :
                   x = RAdd(meta.padding, RMul(f, meta.ribbonWidth)) => probe.out.fraction = f
            /\ \A c \in 1..Len(meta.crossings) :
                   x = meta.crossings[c].pixelX =>
                       probe.out.fraction = meta.crossings[c].distFraction
            /\ RLe(x, meta.padding) => probe.out.fraction = RZero
            /\ RLe(RAdd(meta.padding, meta.ribbonWidth), x) => probe.out.fraction = RInt(1)

C27_Witness ==
    /\ Returned("handleRibbonMouseMove")
    /\ probe.args[2] # 0
    /\ RLt(RInt(20), ProbedMeta.padding)
    /\ probe.args[3] = RAdd(ProbedMeta.padding, RMul(Rat(1, 3), ProbedMeta.ribbonWidth))
    /\ probe.out.fraction = Rat(1, 3)

(* The markers of meta within the hit radius of 10 px of x. *)
WithinRadius(meta, x) ==
    {c \in 1..Len(meta.crossings) :
        RLt(RAbs(RSub(x, meta.crossings[c].pixelX)), RInt(10))}

(* The first of them in list order (there is one). *)
FirstWithin(meta, x) ==
    meta.crossings[CHOOSE c \in WithinRadius(meta, x) : \A d \in WithinRadius(meta, x) : c <= d]

(* C28: hover and click hit-test alike: on the ribbon under the pointer    *)
(* the first crossing in list order whose pixel position is within 10 px   *)
(* of the pointer is the hit, whatever other crossings are within the      *)
(* radius; with none within the radius, or off every ribbon, nothing is    *)
(* hit.                                                                    *)
C28_FirstCrossingWins ==
    /\ Returned("handleRibbonMouseMove") =>
          IF probe.args[2] = 0 \/ WithinRadius(ProbedMeta, probe.args[3]) = {}
          THEN probe.out.hoveredCrossingKey = NULL
          ELSE probe.out.hoveredCrossingKey
                   = crossingKey(FirstWithin(ProbedMeta, probe.args[3]))
    /\ Returned("handleRibbonClickAt") =>
          IF probe.args[2] = 0 \/ WithinRadius(ProbedMeta, probe.args[3]) = {}
          THEN probe.out.alignment = NULL
          ELSE LET hit == FirstWithin(ProbedMeta, probe.args[3])
               IN  IF hit.otherPathId = ProbedMeta.pathId
                   THEN probe.out.alignment = NULL
                   ELSE probe.out.alignment = [crossingKey |-> crossingKey(hit),
                                               anchorPathId |-> ProbedMeta.pathId]

C28_Witness ==
    /\ Returned("handleRibbonMouseMove")
    /\ probe.args[2] # 0
    /\ \E c, d \in WithinRadius(ProbedMeta, probe.args[3]) :
          /\ c < d
          /\ crossingKey(ProbedMeta.crossings[c]) # crossingKey(ProbedMeta.crossings[d])
          /\ RLt(RAbs(RSub(probe.args[3], ProbedMeta.crossings[d].pixelX)),
                 RAbs(RSub(probe.args[3], ProbedMeta.crossings[c].pixelX)))
          /\ probe.out.hoveredCrossingKey = crossingKey(ProbedMeta.crossings[c])

(* The ribbon of meta has a crossing with this alignment's key. *)
Matched(meta, al) ==
    \E c \in 1..Len(meta.crossings) : crossingKey(meta.crossings[c]) = al.crossingKey

(* C29: a rendered ribbon carries signed distance-from-crossing labels     *)
(* exactly if its pass was laid out with an alignment, the ribbon is not   *)
(* that alignment's anchor, and it has a crossing with the alignment's     *)
(* key; the anchor, an unmatched ribbon and every ribbon of an unaligned   *)
(* layout carry absolute labels.                                           *)
C29_LabelModeFollowsLayout ==
    \A r \in 1..Len(ribbonMeta) :
        LET meta == ribbonMeta[r]
            al0  == passes[meta.row.pass].alignment0
        IN  meta.relative <=>
                /\ al0 # NULL
                /\ meta.pathId # al0.anchorPathId
                /\ Matched(meta, al0)

(* The ribbon of path id has no crossing with the key of the alignment.    *)
Unmatched(lay, align, id) ==
    findCrossing(crossingsOr(lay.crossingsByPath, id), align.crossingKey) = NULL

(* The offset of the ribbon at position k before the global shift.         *)
UnshiftedOffset(lay, align, k) ==
    LET id == lay.layouts[k].pathId
        match == findCrossing(crossingsOr(lay.crossingsByPath, id), align.crossingKey)
    IN  IF id = align.anchorPathId \/ match = NULL THEN RZero
        ELSE RSub(lay.anchorX,
                  RAdd(RInt(20), RMul(match.distFraction, lay.layouts[k].ribbonWidth)))

(* C30: in an aligned layout whose anchor resolves, a ribbon with no       *)
(* crossing matching the alignment key has the same final draw offset as   *)
(* the anchor, the global shift (0 before the shift), and the shift adds   *)
(* the same amount to the offset of every ribbon.                          *)
C30_UnmatchedFlushWithAnchor ==
    Returned("computeLayout") /\ probe.out.layout.resolved =>
        LET lay   == probe.out.layout
            align == probe.args[2]
        IN  /\ lay.drawOffsets[align.anchorPathId] = lay.globalShift
            /\ \A k \in 1..Len(lay.layouts) :
                   LET id == lay.layouts[k].pathId
                   IN  /\ Unmatched(lay, align, id) =>
                              lay.drawOffsets[id] = lay.drawOffsets[align.anchorPathId]
                       /\ RSub(lay.drawOffsets[id], UnshiftedOffset(lay, align, k))
                              = lay.globalShift

C30_Witness ==
    /\ Returned("computeLayout")
    /\ probe.out.layout.resolved
    /\ RLt(RZero, probe.out.layout.globalShift)
    /\ \E k \in 1..Len(probe.out.layout.layouts) :
           LET id == probe.out.layout.layouts[k].pathId
           IN  /\ id # probe.args[2].anchorPathId
               /\ Unmatched(probe.out.layout, probe.args[2], id)
               /\ probe.out.layout.drawOffsets[id] = probe.out.layout.globalShift
    /\ \E k \in 1..Len(probe.out.layout.layouts) :
           probe.out.layout.drawOffsets[probe.out.layout.layouts[k].pathId]
               # probe.out.layout.globalShift

(* The point p of the path as a sampled position. *)
AsSample(p) == [lat |-> RInt(p[1]), lng |-> RInt(p[2])]

(* C31: for every sample of a path with at least 2 points, the segment the *)
(* scan chooses brackets the target distance, the local fraction is in     *)
(* [0,1] (0 for a segment of length 0), sample 0 is the first point of the *)
(* path and the last sample is its last point.                             *)
C31_SampleBracketed ==
    Returned("samplePoint") =>
        LET geoPath == probe.args[1]
            d       == probe.out.distances
            segIdx  == probe.out.segIdx
            last    == probe.args[2] - 1
            twice   == computeCumulativeDistances(<<geoPath[1]>> \o geoPath)
        IN  /\ segIdx \in 0..(Len(geoPath) - 2)
            /\ RLe(RInt(d[segIdx + 1]), probe.out.targetDist)
            /\ RLe(probe.out.targetDist, RInt(d[segIdx + 2]))
            /\ InUnitInterval(probe.out.t)
            /\ d[segIdx + 2] = d[segIdx + 1] => probe.out.t = RZero
            /\ segIdxOf(twice, RZero) = 0
            /\ localFraction(twice, RZero, 0) = RZero
            /\ probe.args[3] = 0 => probe.out.point = AsSample(geoPath[1])
            /\ probe.args[3] = last => probe.out.point = AsSample(geoPath[Len(geoPath)])

C31_Witness ==
    /\ Returned("samplePoint")
    /\ Len(probe.args[1]) = 6
    /\ probe.args[3] \notin {0, probe.args[2] - 1}
    /\ probe.out.segIdx \notin {0, 4}
    /\ RLt(RZero, probe.out.t)
    /\ RLt(probe.out.t, RInt(1))

(* C32: the number of samples of a ribbon is                               *)
(* min(80, max(20, floor(ribbonWidth / 8))), so it lies between 20 and 80  *)
(* for every ribbon width, widths below 160 px included.                   *)
C32_SampleCountClamped ==
    Returned("renderSingleRibbon") =>
        LET w       == probe.args[1]
            floored == w.n \div (8 * w.d)
        IN  /\ probe.out.numSegments \in 20..80
            /\ floored < 20 => probe.out.numSegments = 20
            /\ floored > 80 => probe.out.numSegments = 80
            /\ floored \in 20..80 => probe.out.numSegments = floored
            /\ Len(probe.out.strips) = probe.out.numSegments

C32_Witness ==
    /\ Returned("renderSingleRibbon")
    /\ RLt(probe.args[1], RInt(160))
    /\ probe.out.numSegments = 20

(* C33: the strips of a ribbon, strip i at effectivePadding + i *          *)
(* segmentWidth with segmentWidth = ceil(ribbonWidth / numSegments), cover *)
(* the full width of the ribbon and pass its right edge, effectivePadding  *)
(* + ribbonWidth, by less than one strip width.                            *)
C33_StripsCoverRibbon ==
    Returned("renderSingleRibbon") =>
        LET strips    == probe.out.strips
            rightEdge == RAdd(probe.out.effectivePadding, probe.args[1])
            last      == strips[Len(strips)]
        IN  /\ strips[1].left = probe.out.effectivePadding
            /\ \A k \in 1..(Len(strips) - 1) : strips[k].right = strips[k + 1].left
            /\ RLe(rightEdge, last.right)
            /\ RLt(RSub(last.right, rightEdge), RInt(probe.out.segmentWidth))

(* The ids of the saved paths, in list order. *)
PathIdsOf(pathList) == [k \in 1..Len(pathList) |-> pathList[k].id]

(* Every pass that was started has run to its end, and the last one has    *)
(* rendered the paths as they are now.                                     *)
AllPassesCompleted ==
    /\ passes # <<>>
    /\ \A p \in PassIds : passes[p].pc = "done"
    /\ LET own == SelectSeq(ribbonRows, LAMBDA row : row.pass = Len(passes))
       IN  [k \in 1..Len(own) |-> own[k].pathId] = PathIdsOf(paths)

(* C34: when all started render passes have completed, ribbonMeta holds    *)
(* exactly one entry per current path, in path order, also when a pass     *)
(* started while an earlier one was awaiting tile fetches.                 *)
C34_OneMetaPerPath ==
    AllPassesCompleted =>
        [r \in 1..Len(ribbonMeta) |-> ribbonMeta[r].pathId] = PathIdsOf(paths)

(* C35: every image in the tile cache was fetched from the tile provider   *)
(* that is selected now, also when changeTileProvider runs while a fetch   *)
(* from the previous provider is in flight.                                *)
C35_CacheOfCurrentProvider ==
    \A key \in DOMAIN tileCache :
        tileCache[key] # NULL => tileCache[key] = Image(tileProvider)

(* C36: whenever the alignment is set, its anchorPathId is the id of a     *)
(* path in the saved path list, after any sequence of align, reset, save,  *)
(* delete-path and clear-all events.                                       *)
C36_AnchorIsSavedPath ==
    alignment # NULL =>
        \E k \in 1..Len(paths) : paths[k].id = alignment.anchorPathId

(* The width of the ribbon canvases of a layout: the forced width, or the  *)
(* container's width when none is forced.                                  *)
CanvasWidth(lay) ==
    IF lay.totalCanvasWidth # RZero THEN lay.totalCanvasWidth
    ELSE RInt(lay.viewportWidth)

(* The right edge of ribbon k as it is drawn. *)
DrawnRightEdge(lay, k) ==
    RAdd(RAdd(RInt(20), drawOffsetOf(lay, lay.layouts[k].pathId)),
         lay.layouts[k].ribbonWidth)

(* C37: in every layout, aligned or not, the right edge of every ribbon,   *)
(* padding + drawOffset + ribbonWidth, is at most the canvas width less    *)
(* the padding of 20.                                                      *)
C37_RibbonsInsideCanvas ==
    Returned("computeLayout") =>
        \A k \in 1..Len(probe.out.layout.layouts) :
            RLe(DrawnRightEdge(probe.out.layout, k),
                RSub(CanvasWidth(probe.out.layout), RInt(20)))

C37_Witness ==
    /\ Returned("computeLayout")
    /\ probe.out.layout.resolved
    /\ RLt(RZero, probe.out.layout.globalShift)
    /\ Len(probe.out.layout.layouts) = 3
    /\ \E k \in 1..3 :
           /\ probe.out.layout.layouts[k].pathId # probe.args[2].anchorPathId
           /\ DrawnRightEdge(probe.out.layout, k)
                  = RSub(CanvasWidth(probe.out.layout), RInt(20))
    /\ \E k \in 1..3 :
           RLt(DrawnRightEdge(probe.out.layout, k),
               RSub(CanvasWidth(probe.out.layout), RInt(20)))

(* The points at which a segment of gA and a segment of gB that are not    *)
(* parallel meet.                                                          *)
MeetingPoints(gA, gB) ==
    UNION {LET p1 == gA[i]
               p2 == gA[i + 1]
               p3 == gB[j]
               p4 == gB[j + 1]
               c  == Abs(CrossProduct(p1, p2, p3, p4))
           IN  IF c = 0 THEN {}
               ELSE {PointOnSegment(p1, p2, Rat(tu[1], c)) :
                         tu \in CommonPoints(p1, p2, p3, p4, c)} :
           i \in 1..(Len(gA) - 1), j \in 1..(Len(gB) - 1)}

(* The events of list at point with the path otherPathId. *)
EventsAt(list, otherPathId, point) ==
    SelectSeq(EventsWith(list, otherPathId),
              LAMBDA event : <<event.lat, event.lng>> = point)

(* C38: a point where two distinct paths meet yields exactly one crossing  *)
(* event in the list of each of the two paths, also when the point is an   *)
(* inner vertex of one of them, the end of one segment and the start of    *)
(* the next.                                                               *)
C38_OneEventPerIntersection ==
    Returned("computeAllCrossings") =>
        \A a, b \in 1..Len(probe.args[1]) :
            a # b =>
                LET pathA == probe.args[1][a]
                    pathB == probe.args[1][b]
                IN  \A point \in MeetingPoints(pathA.geoPath, pathB.geoPath) :
                        Len(EventsAt(probe.out[pathA.id], pathB.id, point)) = 1

(* The ids of the paths of pathList. *)
IdSet(pathList) == {pathList[k].id : k \in 1..Len(pathList)}

(* C39: the ids of the saved paths are distinct and increase strictly in   *)
(* the order of saving, after any saves, deletions and clear-alls, and the *)
(* id of a deleted path is never given again: a new path gets an id above  *)
(* every id given before (all of them are below nextPathId, which never    *)
(* decreases).                                                             *)
C39_PathIdsUniqueIncreasing ==
    [][/\ \A k \in 1..(Len(paths') - 1) : paths'[k].id < paths'[k + 1].id
       /\ \A id \in IdSet(paths') : id < nextPathId'
       /\ nextPathId' >= nextPathId
       /\ \A id \in IdSet(paths') \ IdSet(paths) : id >= nextPathId]_vars

C39_Witness ==
    /\ Len(paths) = 1
    /\ paths[1].id = 2
    /\ nextPathId = 3
    /\ ~drawing

====
